---- MODULE Spec2Model ----
(***************************************************************************)
(* MoWrap: the INCAR-style config codec (mav/text_helpers.py) and the      *)
(* Slurm batch script editor (mav/core/slurm_helper.py).                   *)
(*                                                                         *)
(* A Python str is a sequence of one-character strings; a list of str is   *)
(* a sequence of such sequences.  A parsed config document (an insertion   *)
(* ordered dict) is a sequence of records [name, value, comment] with      *)
(* pairwise distinct names.                                                *)
(***************************************************************************)
EXTENDS Integers, Sequences, FiniteSets, TLC

VARIABLES
    text,      \* codec: the input text handed to parse_config_text
    doc,       \* codec: parse_config_text(text)
    out,       \* codec: config_dict_to_text(doc)
    doc2,      \* codec: parse_config_text(out)
    cphase,    \* codec: "input" | "parsed" | "serialized" | "reparsed" | "off"
    lines,     \* script: SlurmScript._lines
    hist,      \* script: the values of _lines before each call made so far
    ops,       \* script: the calls made so far, oldest first
    sphase,    \* script: "edit" | "off"
    scan_line,     \* scanner: the line handed to the two scanners
    scan_comment,  \* scanner: <<>> or <<r>>, r the pair _split_comment returned
    scan_stmts,    \* scanner: <<>> or <<r>>, r the list _split_statements returned
    submit_pc,     \* submit: the position of SlurmScript.submit, or "off"
    keep_script,   \* submit: the argument keep_script
    tmp_file,      \* submit: <<>> or <<c>>, c the content of the file at tmp_path
    proc,          \* submit: <<>>, or <<p>> with p what running sbatch gave
    job,           \* submit: <<>>, or <<r>> with r how the call ended
    vaspy,         \* vaspy: the fields of the Vaspy object, the number of
                   \* calls made in the body and whether POSCAR was assigned
    files,         \* vaspy: the file system, <<>> or <<content>> per path
    writes,        \* vaspy: the files written so far, each with the phase
    vpc            \* vaspy: the position around the with-block, or "off"

vars == <<text, doc, out, doc2, cphase, lines, hist, ops, sphase,
          scan_line, scan_comment, scan_stmts,
          submit_pc, keep_script, tmp_file, proc, job,
          vaspy, files, writes, vpc>>

codecVars == <<text, doc, out, doc2, cphase>>
scriptVars == <<lines, hist, ops, sphase>>
scanVars == <<scan_line, scan_comment, scan_stmts>>
submitVars == <<submit_pc, keep_script, tmp_file, proc, job>>
vaspyVars == <<vaspy, files, writes, vpc>>

\* The variables of the subsystems a codec step, an editor call leaves alone
nonCodecVars == <<scriptVars, scanVars, submitVars, vaspyVars>>
nonScriptVars == <<codecVars, scanVars, submitVars, vaspyVars>>
nonScanVars == <<codecVars, scriptVars, submitVars, vaspyVars>>

\* A subsystem that takes no part in a specification
CodecOff ==
    /\ text = <<>>
    /\ doc = <<>>
    /\ out = <<>>
    /\ doc2 = <<>>
    /\ cphase = "off"

ScriptOff ==
    /\ lines = <<>>
    /\ hist = <<>>
    /\ ops = <<>>
    /\ sphase = "off"

ScanOff ==
    /\ scan_line = <<>>
    /\ scan_comment = <<>>
    /\ scan_stmts = <<>>

SubmitOff ==
    /\ submit_pc = "off"
    /\ keep_script = FALSE
    /\ tmp_file = <<>>
    /\ proc = <<>>
    /\ job = <<>>

VaspyOff ==
    /\ vaspy = <<>>
    /\ files = <<>>
    /\ writes = {}
    /\ vpc = "off"

(***************************************************************************)
(* Python str helpers                                                      *)
(***************************************************************************)

NL == "\n"
QUOTE == "\""
BACKSLASH == "\\"

\* str.strip()/lstrip()/rstrip() with no argument remove whitespace
IsSpace(c) == c \in {" ", "\t", "\n"}

RECURSIVE lstrip(_)
lstrip(s) == IF s # <<>> /\ IsSpace(Head(s)) THEN lstrip(Tail(s)) ELSE s

RECURSIVE rstrip(_)
rstrip(s) ==
    IF s # <<>> /\ IsSpace(s[Len(s)]) THEN rstrip(SubSeq(s, 1, Len(s) - 1)) ELSE s

strip(s) == lstrip(rstrip(s))

startswith(s, p) == Len(p) <= Len(s) /\ SubSeq(s, 1, Len(p)) = p

endswith(s, p) ==
    Len(p) <= Len(s) /\ SubSeq(s, Len(s) - Len(p) + 1, Len(s)) = p

\* `c in s` for a one-character c
contains(s, c) == \E i \in 1..Len(s) : s[i] = c

\* s.find(c) + 1: the first position of c in s, 0 when absent
RECURSIVE findFrom(_, _, _)
findFrom(s, c, i) ==
    IF i > Len(s) THEN 0 ELSE IF s[i] = c THEN i ELSE findFrom(s, c, i + 1)

find(s, c) == findFrom(s, c, 1)

\* s.partition(c) -> (before, after); (s, "") when c is absent
partition(s, c) ==
    LET k == find(s, c)
    IN  IF k = 0 THEN <<s, <<>>>>
        ELSE <<SubSeq(s, 1, k - 1), SubSeq(s, k + 1, Len(s))>>

\* sep.join(parts)
RECURSIVE join(_, _)
join(sep, parts) ==
    IF parts = <<>> THEN <<>>
    ELSE IF Len(parts) = 1 THEN parts[1]
    ELSE parts[1] \o sep \o join(sep, Tail(parts))

\* str.splitlines() for texts whose only line break is "\n": the pieces
\* between line breaks, without a final empty piece
RECURSIVE splitlinesFrom(_, _, _, _)
splitlinesFrom(s, i, start, acc) ==
    IF i > Len(s)
    THEN IF start > Len(s) THEN acc ELSE Append(acc, SubSeq(s, start, Len(s)))
    ELSE IF s[i] = NL
         THEN splitlinesFrom(s, i + 1, i + 1, Append(acc, SubSeq(s, start, i - 1)))
         ELSE splitlinesFrom(s, i + 1, start, acc)

splitlines(s) == splitlinesFrom(s, 1, 1, <<>>)

(***************************************************************************)
(* text_helpers.parse_config_text                                          *)
(***************************************************************************)

\* _split_comment: cut at the first # or ! seen while in_quotes is false
RECURSIVE split_comment_from(_, _, _)
split_comment_from(line, idx, in_quotes) ==
    IF idx > Len(line) THEN <<line, <<>>>>
    ELSE IF line[idx] = QUOTE THEN split_comment_from(line, idx + 1, ~in_quotes)
    ELSE IF line[idx] \in {"#", "!"} /\ ~in_quotes
         THEN <<SubSeq(line, 1, idx - 1), strip(SubSeq(line, idx + 1, Len(line)))>>
    ELSE split_comment_from(line, idx + 1, in_quotes)

\* A mutation of split_comment: the scan starts as if inside quotes
split_comment_quoted(line) == split_comment_from(line, 1, TRUE)

split_comment(line) == split_comment_from(line, 1, FALSE)

\* _split_statements: split on ; seen while in_quotes is false
RECURSIVE split_statements_from(_, _, _, _, _)
split_statements_from(code, idx, in_quotes, start, statements) ==
    IF idx > Len(code) THEN Append(statements, SubSeq(code, start, Len(code)))
    ELSE IF code[idx] = QUOTE
         THEN split_statements_from(code, idx + 1, ~in_quotes, start, statements)
    ELSE IF code[idx] = ";" /\ ~in_quotes
         THEN split_statements_from(code, idx + 1, in_quotes, idx + 1,
                                    Append(statements, SubSeq(code, start, idx - 1)))
    ELSE split_statements_from(code, idx + 1, in_quotes, start, statements)

split_statements(code) == split_statements_from(code, 1, FALSE, 1, <<>>)

\* A mutation of continued_line: the separating blank is forgotten
continued_line_nosep(continuation, raw_line) == continuation \o strip(raw_line)

\* The logical line closed by a raw line that ends a continuation
continued_line(continuation, raw_line) ==
    continuation \o <<" ">> \o strip(raw_line)

\* The continuation merge.  cont = <<>> stands for `continuation is None`,
\* <<c>> for the pending continuation text c.
RECURSIVE merge_from(_, _, _, _)
merge_from(raw_lines, k, cont, logical_lines) ==
    IF k > Len(raw_lines)
    THEN IF cont # <<>> THEN Append(logical_lines, cont[1]) ELSE logical_lines
    ELSE
      LET raw_line == raw_lines[k]
          stripped == rstrip(raw_line)
          chopped  == SubSeq(stripped, 1, Len(stripped) - 1)
      IN  IF cont # <<>>
          THEN IF endswith(stripped, <<BACKSLASH>>)
               THEN merge_from(raw_lines, k + 1,
                               <<cont[1] \o <<" ">> \o strip(chopped)>>,
                               logical_lines)
               ELSE merge_from(raw_lines, k + 1, <<>>,
                               Append(logical_lines,
                                      continued_line(cont[1], raw_line)))
          ELSE IF endswith(stripped, <<BACKSLASH>>)
               THEN merge_from(raw_lines, k + 1, <<chopped>>, logical_lines)
               ELSE merge_from(raw_lines, k + 1, <<>>,
                               Append(logical_lines, raw_line))

merge_continuations(raw_lines) == merge_from(raw_lines, 1, <<>>, <<>>)

\* result[name] = entry on an insertion-ordered dict
RECURSIVE dict_index(_, _, _)
dict_index(result, name, i) ==
    IF i > Len(result) THEN 0
    ELSE IF result[i].name = name THEN i
    ELSE dict_index(result, name, i + 1)

dict_set(result, name, value, comment) ==
    LET e == [name |-> name, value |-> value, comment |-> comment]
        i == dict_index(result, name, 1)
    IN  IF i = 0 THEN Append(result, e) ELSE [result EXCEPT ![i] = e]

\* The parser's local state.  current_name = <<>> stands for both None and
\* "": the code only tests its truthiness.
ParserInit ==
    [result |-> <<>>, in_multiline |-> FALSE, current_name |-> <<>>,
     current_value |-> <<>>, current_comment |-> <<>>]

commit_multiline(st) ==
    [st EXCEPT
       !.result = IF st.current_name # <<>>
                  THEN dict_set(st.result, st.current_name,
                                join(<<NL>>, st.current_value), st.current_comment)
                  ELSE st.result,
       !.current_name = <<>>,
       !.current_value = <<>>,
       !.current_comment = <<>>]

\* A mutation of stmt_comment_of: every statement takes the line's comment
stmt_comment_all(is_last, comment) == comment

\* stmt_comment: only the last statement takes the line's trailing comment
stmt_comment_of(is_last, comment) == IF is_last THEN comment ELSE <<>>

\* One statement of a logical line (the body of `for idx, stmt in ...`)
parse_statement(st, raw_stmt, is_last, comment) ==
    LET stmt == strip(raw_stmt)
    IN  IF stmt = <<>> \/ ~contains(stmt, "=") THEN st
        ELSE
          LET nv    == partition(stmt, "=")
              name  == strip(nv[1])
              value == strip(nv[2])
              stmt_comment == stmt_comment_of(is_last, comment)
          IN  IF startswith(value, <<QUOTE>>)
              THEN LET rest == Tail(value)
                   IN  IF contains(rest, QUOTE)
                       THEN LET va == partition(rest, QUOTE)
                                extra_comment == split_comment(va[2])[2]
                                final_comment ==
                                    IF stmt_comment # <<>> THEN stmt_comment
                                    ELSE extra_comment
                            IN  [st EXCEPT !.result =
                                    dict_set(st.result, name, va[1], final_comment)]
                       ELSE [st EXCEPT
                               !.in_multiline = TRUE,
                               !.current_name = name,
                               !.current_comment = stmt_comment,
                               !.current_value =
                                   IF rest # <<>> THEN <<rest>> ELSE st.current_value]
              ELSE [st EXCEPT !.result =
                       dict_set(st.result, name, value, stmt_comment)]

RECURSIVE parse_statements(_, _, _, _)
parse_statements(st, statements, idx, comment) ==
    IF idx > Len(statements) THEN st
    ELSE parse_statements(
           parse_statement(st, statements[idx], idx = Len(statements), comment),
           statements, idx + 1, comment)

\* One logical line (the body of `for line in logical_lines`)
parse_line(st, line) ==
    LET stripped == strip(line)
    IN  IF st.in_multiline
        THEN IF contains(stripped, QUOTE)
             THEN LET ba == partition(stripped, QUOTE)
                      extra_comment == split_comment(ba[2])[2]
                      st1 == [st EXCEPT
                                !.current_value = Append(st.current_value, ba[1]),
                                !.current_comment =
                                    IF extra_comment # <<>> THEN extra_comment
                                    ELSE st.current_comment]
                  IN  [commit_multiline(st1) EXCEPT !.in_multiline = FALSE]
             ELSE [st EXCEPT !.current_value = Append(st.current_value, stripped)]
        ELSE IF stripped = <<>> \/ stripped[1] \in {"#", "!"} THEN st
        ELSE IF ~contains(stripped, "=") THEN st
        ELSE LET cc == split_comment(stripped)
             IN  parse_statements(st, split_statements(cc[1]), 1, cc[2])

RECURSIVE parse_lines(_, _, _)
parse_lines(st, logical_lines, k) ==
    IF k > Len(logical_lines) THEN st
    ELSE parse_lines(parse_line(st, logical_lines[k]), logical_lines, k + 1)

parse_config_text(t) ==
    LET st == parse_lines(ParserInit, merge_continuations(splitlines(t)), 1)
    IN  IF st.in_multiline THEN commit_multiline(st).result ELSE st.result

(***************************************************************************)
(* text_helpers.config_dict_to_text                                        *)
(***************************************************************************)

entry_lines(e) ==
    LET comment == strip(e.comment)
        tail == IF comment # <<>> THEN <<" ", " ", "#", " ">> \o comment ELSE <<>>
    IN  IF contains(e.value, NL)
        THEN <<e.name \o <<" ", "=", " ", QUOTE>>>>
             \o splitlines(e.value)
             \o <<<<QUOTE>> \o tail>>
        ELSE <<e.name \o <<" ", "=", " ">> \o e.value \o tail>>

RECURSIVE config_lines(_, _)
config_lines(config, k) ==
    IF k > Len(config) THEN <<>>
    ELSE entry_lines(config[k]) \o config_lines(config, k + 1)

config_dict_to_text(config) == join(<<NL>>, config_lines(config, 1))

(***************************************************************************)
(* slurm_helper.SlurmScript: directives and environment variables          *)
(*                                                                         *)
(* Indices into _lines are Python's: the first line has index 0.  An       *)
(* optional value is <<>> for None and <<v>> for the str v.                *)
(***************************************************************************)

SBATCH_PREFIX == <<"#", "S", "B", "A", "T", "C", "H">>
SHEBANG == <<"#", "!">>
EXPORT == <<"e", "x", "p", "o", "r", "t">>

\* s[n:]
drop(s, n) == SubSeq(s, n + 1, Len(s))

\* list.insert(idx, x) for 0 <= idx <= len
list_insert(ls, idx, x) == SubSeq(ls, 1, idx) \o <<x>> \o SubSeq(ls, idx + 1, Len(ls))

\* The text after a leading `head\s+`; <<FALSE>> when s does not begin so
after_head(s, head) ==
    IF startswith(s, head)
          /\ Len(s) > Len(head) /\ IsSpace(s[Len(head) + 1])
    THEN <<TRUE, lstrip(drop(s, Len(head)))>>
    ELSE <<FALSE>>

\* re.match of  ^<word>(?:=.*)?\s*$  on an already stripped text t: the word,
\* then the end, or `=` and anything up to the end of the line
word_then_value(t, word) ==
    /\ startswith(t, word)
    /\ LET rest == drop(t, Len(word))
       IN  rest = <<>> \/ (rest[1] = "=" /\ ~contains(rest, NL))

\* pattern.match(stripped) for  ^#SBATCH\s+--<name>(?:=.*)?\s*$
directive_match(stripped, name) ==
    LET a == after_head(stripped, SBATCH_PREFIX)
    IN  a[1] /\ word_then_value(a[2], <<"-", "-">> \o name)

\* pattern.match(stripped) for  ^export\s+<key>(?:=.*)?\s*$
export_match(stripped, key) ==
    LET a == after_head(stripped, EXPORT)
    IN  a[1] /\ word_then_value(a[2], key)

\* The length of the longest prefix of t matching [^=\s]*
RECURSIVE name_run(_, _)
name_run(t, i) ==
    IF i <= Len(t) /\ t[i] # "=" /\ ~IsSpace(t[i]) THEN name_run(t, i + 1) ELSE i - 1

\* pattern.match(line.strip()) for ^#SBATCH\s+--([^=\s]+)(?:=(.*))?\s*$ :
\* <<TRUE, name, value>> or <<FALSE>>
directive_parse(stripped) ==
    LET a == after_head(stripped, SBATCH_PREFIX)
    IN  IF ~a[1] \/ ~startswith(a[2], <<"-", "-">>) THEN <<FALSE>>
        ELSE LET t == drop(a[2], 2)
                 n == name_run(t, 1)
                 rest == drop(t, n)
             IN  IF n = 0 THEN <<FALSE>>
                 ELSE IF rest = <<>> THEN <<TRUE, SubSeq(t, 1, n), <<>>>>
                 ELSE IF rest[1] = "=" /\ ~contains(rest, NL)
                      THEN <<TRUE, SubSeq(t, 1, n), <<Tail(rest)>>>>
                 ELSE <<FALSE>>

\* directives[name] = value on the OrderedDict of list_directives
RECURSIVE directive_index(_, _, _)
directive_index(directives, name, i) ==
    IF i > Len(directives) THEN 0
    ELSE IF directives[i].name = name THEN i
    ELSE directive_index(directives, name, i + 1)

directives_set(directives, name, value) ==
    LET e == [name |-> name, value |-> value]
        i == directive_index(directives, name, 1)
    IN  IF i = 0 THEN Append(directives, e) ELSE [directives EXCEPT ![i] = e]

RECURSIVE list_directives_from(_, _, _)
list_directives_from(ls, k, directives) ==
    IF k > Len(ls) THEN directives
    ELSE LET m == directive_parse(strip(ls[k]))
         IN  list_directives_from(ls, k + 1,
                 IF m[1] THEN directives_set(directives, m[2], m[3])
                 ELSE directives)

list_directives(ls) == list_directives_from(ls, 1, <<>>)

\* The loop of set_directive over (idx, line): <<updated, idx, last_sbatch_idx>>
\* where idx is the line the loop broke at
RECURSIVE directive_scan(_, _, _, _)
directive_scan(ls, name, idx, last_sbatch_idx) ==
    IF idx >= Len(ls) THEN <<FALSE, idx, last_sbatch_idx>>
    ELSE LET stripped == strip(ls[idx + 1])
             last == IF startswith(stripped, SBATCH_PREFIX) THEN idx
                     ELSE last_sbatch_idx
         IN  IF directive_match(stripped, name) THEN <<TRUE, idx, last>>
             ELSE directive_scan(ls, name, idx + 1, last)

directive_line(name, value) ==
    IF value = <<>> THEN SBATCH_PREFIX \o <<" ", "-", "-">> \o name
    ELSE SBATCH_PREFIX \o <<" ", "-", "-">> \o name \o <<"=">> \o value[1]

\* A mutation of directive_insert_idx: the new line goes before the last
\* #SBATCH line instead of after it
directive_insert_idx_before(ls, last_sbatch_idx) ==
    IF last_sbatch_idx >= 0 THEN last_sbatch_idx
    ELSE IF ls # <<>> /\ startswith(ls[1], SHEBANG) THEN 1 ELSE 0

\* insert_idx of set_directive when no line was updated
directive_insert_idx(ls, last_sbatch_idx) ==
    IF last_sbatch_idx >= 0 THEN last_sbatch_idx + 1
    ELSE IF ls # <<>> /\ startswith(ls[1], SHEBANG) THEN 1 ELSE 0

\* A mutation of set_directive: the new line is always appended
set_directive_append(ls, name, value) == Append(ls, directive_line(name, value))

set_directive(ls, name, value) ==
    LET new_line == directive_line(name, value)
        r == directive_scan(ls, name, 0, -1)
    IN  IF r[1] THEN [ls EXCEPT ![r[2] + 1] = new_line]
        ELSE list_insert(ls, directive_insert_idx(ls, r[3]), new_line)

\* A mutation of remove_directive: only the first matching line is deleted
remove_directive_first(ls, name) ==
    LET r == directive_scan(ls, name, 0, -1)
    IN  IF r[1] THEN SubSeq(ls, 1, r[2]) \o SubSeq(ls, r[2] + 2, Len(ls)) ELSE ls

RECURSIVE remove_directive(_, _)
remove_directive(ls, name) ==
    IF ls = <<>> THEN <<>>
    ELSE IF directive_match(strip(Head(ls)), name) THEN remove_directive(Tail(ls), name)
    ELSE <<Head(ls)>> \o remove_directive(Tail(ls), name)

\* The loop of set_env_var: <<updated, idx, last_export_idx>>
RECURSIVE export_scan(_, _, _, _)
export_scan(ls, key, idx, last_export_idx) ==
    IF idx >= Len(ls) THEN <<FALSE, idx, last_export_idx>>
    ELSE LET stripped == strip(ls[idx + 1])
             last == IF startswith(stripped, EXPORT \o <<" ">>) THEN idx
                     ELSE last_export_idx
         IN  IF export_match(stripped, key) THEN <<TRUE, idx, last>>
             ELSE export_scan(ls, key, idx + 1, last)

\* A mutation of set_env_var: every matching line is rewritten
set_env_var_all(ls, key, value) ==
    [i \in 1..Len(ls) |->
        IF export_match(strip(ls[i]), key)
        THEN EXPORT \o <<" ">> \o key \o <<"=">> \o value
        ELSE ls[i]]

set_env_var(ls, key, value) ==
    LET new_line == EXPORT \o <<" ">> \o key \o <<"=">> \o value
        r == export_scan(ls, key, 0, -1)
    IN  IF r[1] THEN [ls EXCEPT ![r[2] + 1] = new_line]
        ELSE list_insert(ls, IF r[3] >= 0 THEN r[3] + 1 ELSE Len(ls), new_line)

RECURSIVE unset_env_var(_, _)
unset_env_var(ls, key) ==
    IF ls = <<>> THEN <<>>
    ELSE IF export_match(strip(Head(ls)), key) THEN unset_env_var(Tail(ls), key)
    ELSE <<Head(ls)>> \o unset_env_var(Tail(ls), key)

(***************************************************************************)
(* slurm_helper.SlurmScript: command options                               *)
(***************************************************************************)

SQUOTE == "'"

\* shlex.split(s): the POSIX-mode tokenizer of the standard library, with
\* whitespace_split and no comment characters.  state is " " between tokens,
\* "a" inside a word, a quote character inside quotes, and the backslash
\* after an escape character.  [ok |-> FALSE] stands for the ValueError of
\* an unclosed quotation or a dangling escape.
RECURSIVE shlex_scan(_, _, _, _, _, _, _)
shlex_scan(s, i, state, escapedstate, token, quoted, tokens) ==
    IF i > Len(s)
    THEN IF state \in {QUOTE, SQUOTE, BACKSLASH} THEN [ok |-> FALSE, tokens |-> tokens]
         ELSE IF state = "a" /\ (token # <<>> \/ quoted)
              THEN [ok |-> TRUE, tokens |-> Append(tokens, token)]
         ELSE [ok |-> TRUE, tokens |-> tokens]
    ELSE
      LET c == s[i]
      IN  IF state = " "
          THEN IF c \in {" ", "\t", "\r", "\n"}
               THEN shlex_scan(s, i + 1, " ", escapedstate, <<>>, FALSE, tokens)
               ELSE IF c = BACKSLASH
               THEN shlex_scan(s, i + 1, BACKSLASH, "a", <<>>, FALSE, tokens)
               ELSE IF c \in {QUOTE, SQUOTE}
               THEN shlex_scan(s, i + 1, c, escapedstate, <<>>, FALSE, tokens)
               ELSE shlex_scan(s, i + 1, "a", escapedstate, <<c>>, FALSE, tokens)
          ELSE IF state \in {QUOTE, SQUOTE}
          THEN IF c = state
               THEN shlex_scan(s, i + 1, "a", escapedstate, token, TRUE, tokens)
               ELSE IF c = BACKSLASH /\ state = QUOTE
               THEN shlex_scan(s, i + 1, BACKSLASH, state, token, TRUE, tokens)
               ELSE shlex_scan(s, i + 1, state, escapedstate, token \o <<c>>, TRUE,
                               tokens)
          ELSE IF state = BACKSLASH
          THEN IF escapedstate \in {QUOTE, SQUOTE} /\ c # BACKSLASH /\ c # escapedstate
               THEN shlex_scan(s, i + 1, escapedstate, escapedstate,
                               token \o <<BACKSLASH, c>>, quoted, tokens)
               ELSE shlex_scan(s, i + 1, escapedstate, escapedstate,
                               token \o <<c>>, quoted, tokens)
          ELSE \* state = "a"
               IF c \in {" ", "\t", "\r", "\n"}
               THEN shlex_scan(s, i + 1, " ", escapedstate, <<>>, FALSE,
                               IF token # <<>> \/ quoted THEN Append(tokens, token)
                               ELSE tokens)
               ELSE IF c \in {QUOTE, SQUOTE}
               THEN shlex_scan(s, i + 1, c, escapedstate, token, quoted, tokens)
               ELSE IF c = BACKSLASH
               THEN shlex_scan(s, i + 1, BACKSLASH, "a", token, quoted, tokens)
               ELSE shlex_scan(s, i + 1, "a", escapedstate, token \o <<c>>, quoted,
                               tokens)

\* A mutation of shlex_split: an unclosed quotation is not reported
shlex_split_lenient(s) ==
    [shlex_scan(s, 1, " ", " ", <<>>, FALSE, <<>>) EXCEPT !.ok = TRUE]

shlex_split(s) == shlex_scan(s, 1, " ", " ", <<>>, FALSE, <<>>)

\* The first 1-based position from i on of a token that is flag or begins
\* with flag=, 0 if none
RECURSIVE flag_index(_, _, _)
flag_index(tokens, flag, i) ==
    IF i > Len(tokens) THEN 0
    ELSE IF tokens[i] = flag \/ startswith(tokens[i], flag \o <<"=">>) THEN i
    ELSE flag_index(tokens, flag, i + 1)

\* The first 1-based position from i on of a token not beginning with `-`,
\* Len(tokens) + 1 if none
RECURSIVE first_non_option(_, _)
first_non_option(tokens, i) ==
    IF i > Len(tokens) THEN Len(tokens) + 1
    ELSE IF ~startswith(tokens[i], <<"-">>) THEN i
    ELSE first_non_option(tokens, i + 1)

\* A mutation of set_option_tokens: an option found is always rewritten to
\* flag=value, whatever its style
set_option_tokens_eq(tokens, flag, value) ==
    LET idx == flag_index(tokens, flag, 1)
        opt == flag \o <<"=">> \o value
    IN  IF idx # 0 THEN [tokens EXCEPT ![idx] = opt]
        ELSE LET insert_pos == first_non_option(tokens, 2)
             IN  SubSeq(tokens, 1, insert_pos - 1) \o <<opt>>
                 \o SubSeq(tokens, insert_pos, Len(tokens))

\* A mutation of set_option_tokens: a new option always goes to the end
set_option_tokens_append(tokens, flag, value) ==
    LET idx == flag_index(tokens, flag, 1)
        opt == flag \o <<"=">> \o value
    IN  IF idx # 0
        THEN IF tokens[idx] = flag /\ idx + 1 <= Len(tokens)
                  /\ ~startswith(tokens[idx + 1], <<"-">>)
             THEN [tokens EXCEPT ![idx + 1] = value]
             ELSE [tokens EXCEPT ![idx] = opt]
        ELSE Append(tokens, opt)

\* _set_option_tokens
set_option_tokens(tokens, flag, value) ==
    LET idx == flag_index(tokens, flag, 1)
        opt == flag \o <<"=">> \o value
    IN  IF idx # 0
        THEN IF tokens[idx] = flag /\ idx + 1 <= Len(tokens)
                  /\ ~startswith(tokens[idx + 1], <<"-">>)
             THEN [tokens EXCEPT ![idx + 1] = value]
             ELSE [tokens EXCEPT ![idx] = opt]
        ELSE LET insert_pos == first_non_option(tokens, 2)
             IN  SubSeq(tokens, 1, insert_pos - 1) \o <<opt>>
                 \o SubSeq(tokens, insert_pos, Len(tokens))

\* stripped.startswith(command + " ")
is_command(line, command) == startswith(strip(line), command \o <<" ">>)

\* set_option_on_command: [lines, raised]; raised tells that shlex.split
\* raised ValueError, which ends the call with the lines as they then are
RECURSIVE set_option_loop(_, _, _, _, _, _)
set_option_loop(ls, i, command, flag, value, which) ==
    IF i > Len(ls) THEN [lines |-> ls, raised |-> FALSE]
    ELSE IF ~is_command(ls[i], command)
         THEN set_option_loop(ls, i + 1, command, flag, value, which)
    ELSE LET t == shlex_split(strip(ls[i]))
         IN  IF ~t.ok THEN [lines |-> ls, raised |-> TRUE]
             ELSE LET new == [ls EXCEPT ![i] =
                                 join(<<" ">>, set_option_tokens(t.tokens, flag, value))]
                  IN  IF which = "first" THEN [lines |-> new, raised |-> FALSE]
                      ELSE set_option_loop(new, i + 1, command, flag, value, which)

\* A mutation of set_option_on_command: every matching line is edited,
\* whatever which is
set_option_on_command_every(ls, command, flag, value, which) ==
    set_option_loop(ls, 1, command, flag, value, "all")

set_option_on_command(ls, command, flag, value, which) ==
    set_option_loop(ls, 1, command, flag, value, which)

\* flag_map of normalize_command_options: the dict from option name to the
\* last --name=value token of that name, as a sequence of [name, opt]
is_long_eq(opt) == startswith(opt, <<"-", "-">>) /\ contains(opt, "=")
opt_name(opt) == partition(opt, "=")[1]

RECURSIVE flag_map_of(_, _)
flag_map_of(opts, i) ==
    IF i = 0 THEN <<>>
    ELSE LET m == flag_map_of(opts, i - 1)
             j == directive_index(m, opt_name(opts[i]), 1)
             e == [name |-> opt_name(opts[i]), opt |-> opts[i]]
         IN  IF ~is_long_eq(opts[i]) THEN m
             ELSE IF j = 0 THEN Append(m, e) ELSE [m EXCEPT ![j] = e]

\* `for name in preferred_order`: <<new_opts, used>>
RECURSIVE preferred_opts(_, _, _)
preferred_opts(preferred_order, flag_map, k) ==
    IF k = 0 THEN <<<<>>, {}>>
    ELSE LET r == preferred_opts(preferred_order, flag_map, k - 1)
             j == directive_index(flag_map, preferred_order[k], 1)
         IN  IF j = 0 THEN r
             ELSE <<Append(r[1], flag_map[j].opt), r[2] \cup {preferred_order[k]}>>

\* `for opt in opts`: the options whose name was not used
RECURSIVE remaining_opts(_, _)
remaining_opts(opts, used) ==
    IF opts = <<>> THEN <<>>
    ELSE (IF is_long_eq(Head(opts)) /\ opt_name(Head(opts)) \in used THEN <<>>
          ELSE <<Head(opts)>>) \o remaining_opts(Tail(opts), used)

\* The rewritten token list of one line of normalize_command_options
normalize_tokens(tokens, preferred_order) ==
    LET rest_start == first_non_option(tokens, 2)
        opts == SubSeq(tokens, 2, rest_start - 1)
        rest == SubSeq(tokens, rest_start, Len(tokens))
        flag_map == flag_map_of(opts, Len(opts))
        p == preferred_opts(preferred_order, flag_map, Len(preferred_order))
    IN  <<tokens[1]>> \o p[1] \o remaining_opts(opts, p[2]) \o rest

\* normalize_command_options: [lines, raised].  occurrence is <<>> for None
\* and <<n>> for the int n.
RECURSIVE normalize_loop(_, _, _, _, _, _)
normalize_loop(ls, i, seen, command, preferred_order, occurrence) ==
    IF i > Len(ls) THEN [lines |-> ls, raised |-> FALSE]
    ELSE IF ~is_command(ls[i], command)
         THEN normalize_loop(ls, i + 1, seen, command, preferred_order, occurrence)
    ELSE IF occurrence # <<>> /\ seen # occurrence[1]
         THEN normalize_loop(ls, i + 1, seen + 1, command, preferred_order, occurrence)
    ELSE LET t == shlex_split(strip(ls[i]))
         IN  IF ~t.ok THEN [lines |-> ls, raised |-> TRUE]
             ELSE IF t.tokens = <<>>
             THEN normalize_loop(ls, i + 1, seen + 1, command, preferred_order,
                                 occurrence)
             ELSE LET new == [ls EXCEPT ![i] =
                                 join(<<" ">>, normalize_tokens(t.tokens, preferred_order))]
                  IN  IF occurrence # <<>> /\ seen + 1 > occurrence[1]
                      THEN [lines |-> new, raised |-> FALSE]
                      ELSE normalize_loop(new, i + 1, seen + 1, command,
                                          preferred_order, occurrence)

normalize_command_options(ls, command, preferred_order, occurrence) ==
    normalize_loop(ls, 1, 0, command, preferred_order, occurrence)

\* set_option_on_command_at: [lines, raised]; seen counts the lines that
\* begin with `command ` passed so far
RECURSIVE set_option_at_loop(_, _, _, _, _, _, _)
set_option_at_loop(ls, i, seen, command, occurrence, flag, value) ==
    IF i > Len(ls) THEN [lines |-> ls, raised |-> FALSE]
    ELSE IF ~is_command(ls[i], command)
         THEN set_option_at_loop(ls, i + 1, seen, command, occurrence, flag, value)
    ELSE IF seen = occurrence
         THEN LET t == shlex_split(strip(ls[i]))
              IN  IF ~t.ok THEN [lines |-> ls, raised |-> TRUE]
                  ELSE [lines |-> [ls EXCEPT ![i] =
                                      join(<<" ">>,
                                           set_option_tokens(t.tokens, flag, value))],
                        raised |-> FALSE]
    ELSE set_option_at_loop(ls, i + 1, seen + 1, command, occurrence, flag, value)

set_option_on_command_at(ls, command, occurrence, flag, value) ==
    set_option_at_loop(ls, 1, 0, command, occurrence, flag, value)

(***************************************************************************)
(* SlurmScript: modules, body commands and comments                        *)
(***************************************************************************)

MODULE_PREFIX == <<"m", "o", "d", "u", "l", "e", " ">>

\* `sub in s` for strings
str_in(sub, s) ==
    \E i \in 0..(Len(s) - Len(sub)) : SubSeq(s, i + 1, i + Len(sub)) = sub

\* line.strip().startswith("module ")
is_module_line(line) == startswith(strip(line), MODULE_PREFIX)

\* The 0-based index of the last module line from position i on, else last
RECURSIVE last_module_scan(_, _, _)
last_module_scan(ls, i, last) ==
    IF i > Len(ls) THEN last
    ELSE last_module_scan(ls, i + 1, IF is_module_line(ls[i]) THEN i - 1 ELSE last)

add_module(ls, action, name, position) ==
    LET new_line == MODULE_PREFIX \o action \o <<" ">> \o name
        last_module_idx == last_module_scan(ls, 1, -1)
    IN  IF position = "end" THEN Append(ls, new_line)
        ELSE IF position = "after_last_module" /\ last_module_idx >= 0
             THEN list_insert(ls, last_module_idx + 1, new_line)
        ELSE IF position = "before_first_non_shebang"
             THEN list_insert(ls,
                              IF ls # <<>> /\ startswith(ls[1], SHEBANG) THEN 1 ELSE 0,
                              new_line)
        ELSE Append(ls, new_line)

\* A mutation of remove_module: the substring is not looked at
remove_module_any(ls, name_substring) ==
    SelectSeq(ls, LAMBDA line : ~is_module_line(line))

remove_module(ls, name_substring) ==
    SelectSeq(ls, LAMBDA line : ~(is_module_line(line) /\ str_in(name_substring, line)))

\* add_body_command; any other `where` raises ValueError and changes nothing
add_body_command(ls, command, where) ==
    IF where = "end" THEN Append(ls, command)
    ELSE IF where = "top" THEN list_insert(ls, 0, command)
    ELSE ls

\* f"# {text}", the argument text being txt here
comment_line_of(txt) == <<"#", " ">> \o txt

\* add_comment; any other `where` raises ValueError and changes nothing
add_comment(ls, txt, where) ==
    IF where = "end" THEN Append(ls, comment_line_of(txt))
    ELSE IF where = "top"
         THEN list_insert(ls,
                          IF ls # <<>> /\ startswith(ls[1], SHEBANG) THEN 1 ELSE 0,
                          comment_line_of(txt))
    ELSE ls

\* The loop of add_comment_above_command from line idx on
RECURSIVE above_command_loop(_, _, _, _, _, _)
above_command_loop(ls, idx, new_lines, command, comment_line, which) ==
    IF idx > Len(ls) THEN new_lines
    ELSE IF is_command(ls[idx], command)
         THEN LET marked == new_lines \o <<comment_line, ls[idx]>>
              IN  IF which = "first" THEN marked \o SubSeq(ls, idx + 1, Len(ls))
                  ELSE above_command_loop(ls, idx + 1, marked, command,
                                          comment_line, which)
    ELSE above_command_loop(ls, idx + 1, Append(new_lines, ls[idx]), command,
                            comment_line, which)

\* A mutation of add_comment_above_command: the comment is put above every
\* match whatever `which` says
add_comment_above_command_every(ls, command, txt, which) ==
    above_command_loop(ls, 1, <<>>, command, comment_line_of(txt), "all")

add_comment_above_command(ls, command, txt, which) ==
    above_command_loop(ls, 1, <<>>, command, comment_line_of(txt), which)

\* The loop of add_comment_above_line_containing from line idx on
RECURSIVE above_containing_loop(_, _, _, _, _, _)
above_containing_loop(ls, idx, new_lines, substring, comment_line, which) ==
    IF idx > Len(ls) THEN new_lines
    ELSE IF str_in(substring, ls[idx])
         THEN LET marked == new_lines \o <<comment_line, ls[idx]>>
              IN  IF which = "first" THEN marked \o SubSeq(ls, idx + 1, Len(ls))
                  ELSE above_containing_loop(ls, idx + 1, marked, substring,
                                             comment_line, which)
    ELSE above_containing_loop(ls, idx + 1, Append(new_lines, ls[idx]), substring,
                               comment_line, which)

add_comment_above_line_containing(ls, substring, txt, which) ==
    above_containing_loop(ls, 1, <<>>, substring, comment_line_of(txt), which)

(***************************************************************************)
(* SlurmScript.submit                                                      *)
(***************************************************************************)

\* SlurmScript.to_string
to_string(ls) == join(<<NL>>, ls) \o <<NL>>

\* SlurmScript.from_text and the setter of SlurmScript.content: the lines
\* of a script made from the text t
from_text(t) == splitlines(t)

\* The literal part of r"Submitted batch job (\d+)"
JOB_PATTERN ==
    <<"S", "u", "b", "m", "i", "t", "t", "e", "d", " ", "b", "a", "t", "c", "h",
      " ", "j", "o", "b", " ">>

DIGITS == <<"0", "1", "2", "3", "4", "5", "6", "7", "8", "9">>

is_digit(c) == \E d \in 1..Len(DIGITS) : DIGITS[d] = c

\* The longest run of digits of s that starts at position i: what (\d+)
\* takes there, <<>> when s[i] is no digit
RECURSIVE digit_run(_, _)
digit_run(s, i) ==
    IF i > Len(s) \/ ~is_digit(s[i]) THEN <<>>
    ELSE <<s[i]>> \o digit_run(s, i + 1)

\* re.search(r"Submitted batch job (\d+)", s): <<>> for no match, else
\* <<group 1>> of the leftmost match
RECURSIVE re_search_job(_, _)
re_search_job(s, i) ==
    IF i > Len(s) THEN <<>>
    ELSE IF i + Len(JOB_PATTERN) - 1 <= Len(s)
            /\ SubSeq(s, i, i + Len(JOB_PATTERN) - 1) = JOB_PATTERN
            /\ digit_run(s, i + Len(JOB_PATTERN)) # <<>>
         THEN <<digit_run(s, i + Len(JOB_PATTERN))>>
    ELSE re_search_job(s, i + 1)

\* int(digits) for a string of decimal digits
RECURSIVE int_of(_)
int_of(digits) ==
    IF digits = <<>> THEN 0
    ELSE LET last == digits[Len(digits)]
             d    == CHOOSE k \in 1..Len(DIGITS) : DIGITS[k] = last
         IN  10 * int_of(SubSeq(digits, 1, Len(digits) - 1)) + (d - 1)

\* How submit ends
Returned(job_id) == [returned |-> TRUE, id |-> job_id, error |-> ""]
Raised(error) == [returned |-> FALSE, id |-> 0, error |-> error]

\* A mutation of submit_result: the return code is not looked at
submit_result_any_code(p) ==
    LET match == re_search_job(strip(p.stdout), 1)
    IN  IF match = <<>> THEN Raised("Could not parse job ID from sbatch output")
        ELSE Returned(int_of(match[1]))

\* The part of submit after sbatch has run and given p
submit_result(p) ==
    IF p.returncode # 0 THEN Raised("sbatch failed")
    ELSE LET match == re_search_job(strip(p.stdout), 1)
         IN  IF match = <<>> THEN Raised("Could not parse job ID from sbatch output")
             ELSE Returned(int_of(match[1]))

\* A mutation of unlink_in_finally: the file is removed only after sbatch
\* could be launched
unlink_after_run(keep, launched) == ~keep /\ launched

\* Whether the finally clause removes the file at tmp_path.  The removal is
\* taken to succeed: unlink(missing_ok=True) fails only when the file system
\* refuses it, which submit logs and otherwise ignores.
unlink_in_finally(keep, launched) == ~keep

(***************************************************************************)
(* vaspy.Vaspy and the VASP files it holds                                 *)
(***************************************************************************)

SLASH == "/"

File_INCAR == <<"I", "N", "C", "A", "R">>
File_POSCAR == <<"P", "O", "S", "C", "A", "R">>
File_POTCAR == <<"P", "O", "T", "C", "A", "R">>
File_KPOINTS == <<"K", "P", "O", "I", "N", "T", "S">>

\* Path.is_absolute for a POSIX path string
is_absolute(p) == p # <<>> /\ p[1] = SLASH

\* dir / name for a relative name
path_join(dir, name) == dir \o <<SLASH>> \o name

\* A mutation of get_path: the default option resolves like "input"
get_path_input(v, opt) ==
    LET target_path_str == v.input_path
    IN  IF target_path_str = <<>> THEN v.root_path
        ELSE IF is_absolute(target_path_str[1]) THEN target_path_str[1]
        ELSE path_join(v.root_path, target_path_str[1])

\* Vaspy.get_path for opt in "root", "input", "output"; a path argument is
\* <<>> for None and <<p>> for the string p
get_path(v, opt) ==
    LET target_path_str == IF opt = "input" THEN v.input_path ELSE v.output_path
    IN  IF opt = "root" THEN v.root_path
        ELSE IF target_path_str = <<>> THEN v.root_path
        ELSE IF is_absolute(target_path_str[1]) THEN target_path_str[1]
        ELSE path_join(v.root_path, target_path_str[1])

\* path.exists(), path.read_text() and path.write_text(c) on the file system
\* fs, a function from paths to <<>> (no file) or <<content>>
exists(fs, path) == fs[path] # <<>>
read_text(fs, path) == fs[path][1]
write_text(fs, path, c) == [fs EXCEPT ![path] = <<c>>]

\* Incar.load: the entries read from path, none when there is no file
incar_load(fs, path) ==
    IF ~exists(fs, path) THEN <<>> ELSE parse_config_text(read_text(fs, path))

\* Poscar.load, Potcar.load, Kpoints.load: the content, "" without a file
content_load(fs, path) == IF ~exists(fs, path) THEN <<>> ELSE read_text(fs, path)

\* Incar.save and Kpoints.save write whatever they hold
save_always(fs, path, c) == write_text(fs, path, c)

\* A mutation of save_content: empty content is written too
save_content_empty(fs, path, c) == write_text(fs, path, c)

\* Poscar.save and Potcar.save return early on empty content
save_content(fs, path, c) == IF c = <<>> THEN fs ELSE write_text(fs, path, c)

\* str.split(): the pieces of s between runs of whitespace
RECURSIVE split_ws(_, _, _, _)
split_ws(s, i, word, acc) ==
    IF i > Len(s) THEN IF word = <<>> THEN acc ELSE Append(acc, word)
    ELSE IF IsSpace(s[i])
         THEN split_ws(s, i + 1, <<>>, IF word = <<>> THEN acc ELSE Append(acc, word))
    ELSE split_ws(s, i + 1, Append(word, s[i]), acc)

\* Poscar.species: the words of the 6th line of the trimmed content
species(content) ==
    LET ls == splitlines(strip(content))
    IN  IF content = <<>> \/ Len(ls) < 6 THEN <<>>
        ELSE split_ws(strip(ls[6]), 1, <<>>, <<>>)

\* dict.update(params) on the entries of an Incar
RECURSIVE incar_update(_, _)
incar_update(data, params) ==
    IF params = <<>> THEN data
    ELSE incar_update(dict_set(data, Head(params).name, Head(params).value,
                               Head(params).comment),
                      Tail(params))

\* A mutation of exit_saves: an exception of the body is not looked at
exit_saves_any(raised, auto_save) == auto_save

\* __exit__: `exc_type is None and self.auto_save`, raised telling that the
\* body raised
exit_saves(raised, auto_save) == ~raised /\ auto_save

\* Vaspy.save_all: the four files are saved under get_path()
save_all(v, fs) ==
    LET out_dir == get_path(v, "root")
        fs1 == save_always(fs, path_join(out_dir, File_INCAR),
                           config_dict_to_text(v.incar))
        fs2 == save_content(fs1, path_join(out_dir, File_POSCAR), v.poscar)
        fs3 == save_content(fs2, path_join(out_dir, File_POTCAR), v.potcar)
    IN  save_always(fs3, path_join(out_dir, File_KPOINTS), v.kpoints)

(***************************************************************************)
(* The codec as a state machine: a text is parsed, the document is         *)
(* serialized, and the serialized text is parsed again.                    *)
(***************************************************************************)

MaxLines == 4
MaxStmts == 3

\* Raw lines the input texts are built from
LineCatalog ==
    { <<"A", " ", "=", " ", "1", " ", "\\">>,                     \* A = 1 \
      <<"B", " ", "=", " ", "2">>,                                \* B = 2
      <<"X", " ", "=", " ", "\"">>,                               \* X = "
      <<"f", "o", "o">>,                                          \* foo
      <<"b", "a", "r">>,                                          \* bar
      <<"\"", " ", "#", " ", "t", "a", "i", "l">>,                \* " # tail
      <<"A", " ", "=", " ", "\"", "x", "#", "y", "\"">> }         \* A = "x#y"

\* Statements and trailing comments one-line inputs are built from
StmtCatalog ==
    { <<"X", "=", "1">>,                                          \* X=1
      <<" ", "Y", "=", "2">>,                                     \*  Y=2
      <<"X", " ", "=", " ", "\"", "a", ";", "b", "\"">>,          \* X = "a;b"
      <<"Z">>,                                                    \* Z
      <<"Y", "=", "\"", "q">>,                                     \* Y="q
      <<"=", "3">>,                                               \* =3
      <<>> }

CommentCatalog ==
    { <<>>,
      <<" ", "#", " ", "n", "o", "t", "e">>,                      \*  # note
      <<" ", "!", " ", "n">> }                                    \*  ! n

SeqsUpTo(S, n) == UNION {[1..k -> S] : k \in 0..n}

LineTexts == {join(<<NL>>, ls) : ls \in SeqsUpTo(LineCatalog, MaxLines)}

StmtTexts ==
    {join(<<";">>, ss) \o c : ss \in SeqsUpTo(StmtCatalog, MaxStmts) \ {<<>>},
                              c \in CommentCatalog}

\* Lines that open a quoted block and do not close it, and the lines that
\* follow them to the end of the text
OpeningCatalog ==
    { <<"Y", " ", "=", " ", "\"", "q">>,                          \* Y = "q
      <<"X", "=", "\"">>,                                         \* X="
      <<"Z", ";", "Y", "=", "\"", " ", "q", " ", "#", " ", "n">>, \* Z;Y=" q # n
      <<"\"", "=", "\"", "q", ";", "X", "=", "\"">> }             \* "="q;X="

TailCatalog ==
    { <<"f", "o", "o">>,                                          \* foo
      <<" ", "b", "a", "r", " ">>,                                \*  bar
      <<>> }

BlockTexts ==
    {join(<<NL>>, <<o>> \o tl) : o \in OpeningCatalog,
                                tl \in SeqsUpTo(TailCatalog, MaxLines - 1)}

InitCodec ==
    /\ text \in LineTexts \cup StmtTexts \cup BlockTexts
    /\ doc = <<>>
    /\ out = <<>>
    /\ doc2 = <<>>
    /\ cphase = "input"
    /\ lines = <<>>
    /\ hist = <<>>
    /\ ops = <<>>
    /\ sphase = "off"
    /\ ScanOff
    /\ SubmitOff
    /\ VaspyOff

Parse ==
    /\ cphase = "input"
    /\ doc' = parse_config_text(text)
    /\ cphase' = "parsed"
    /\ UNCHANGED <<text, out, doc2, nonCodecVars>>

Serialize ==
    /\ cphase = "parsed"
    /\ out' = config_dict_to_text(doc)
    /\ cphase' = "serialized"
    /\ UNCHANGED <<text, doc, doc2, nonCodecVars>>

Reparse ==
    /\ cphase = "serialized"
    /\ doc2' = parse_config_text(out)
    /\ cphase' = "reparsed"
    /\ UNCHANGED <<text, doc, out, nonCodecVars>>

NextCodec == Parse \/ Serialize \/ Reparse

SpecCodec == InitCodec /\ [][NextCodec]_vars

Triples(d) == {d[i] : i \in 1..Len(d)}

(***************************************************************************)
(* Claims about the codec                                                  *)
(***************************************************************************)

Str_A == <<"A">>
Str_B == <<"B">>
Str_X == <<"X">>
Str_Y == <<"Y">>
Str_1 == <<"1">>
Str_2 == <<"2">>
Str_tail == <<"t", "a", "i", "l">>
Str_note == <<"n", "o", "t", "e">>

NameValues(d) == {<<d[i].name, d[i].value>> : i \in 1..Len(d)}

\* C1: for every document d produced by parse_config_text,
\* parse_config_text(config_dict_to_text(d)) has exactly the (name, value,
\* comment) triples of d.
C1_RoundTrip ==
    cphase = "reparsed" => Triples(doc2) = Triples(doc)

\* The text of C2: `A = 1 \` followed by the raw line `B = 2`
C2_Text ==
    <<"A", " ", "=", " ", "1", " ", "\\", NL, "B", " ", "=", " ", "2">>

\* C2 as stated: the continued text parses to exactly two entries, A with
\* value 1 and B with value 2.
C2_TwoEntries ==
    (cphase = "parsed" /\ text = C2_Text)
        => (Len(doc) = 2 /\ NameValues(doc) = {<<Str_A, Str_1>>, <<Str_B, Str_2>>})

\* C2 amended: the continued text is one logical line and one statement; it
\* parses to the single entry A whose value is everything after the first
\* `=`, that is `1  B = 2` (the blank before the backslash plus the joining
\* blank), with an empty comment.
C2_OneEntry ==
    (cphase = "parsed" /\ text = C2_Text)
        => doc = << [name |-> Str_A,
                     value |-> <<"1", " ", " ", "B", " ", "=", " ", "2">>,
                     comment |-> <<>>] >>

C2_Witness == cphase = "parsed" /\ text = C2_Text /\ Len(doc) = 1

\* The text of C3: the four lines `X = "`, `foo`, `bar`, `" # tail`
C3_Text ==
    <<"X", " ", "=", " ", "\"", NL, "f", "o", "o", NL, "b", "a", "r", NL,
      "\"", " ", "#", " ", "t", "a", "i", "l">>

\* C3: the four-line block parses to the single entry X whose value is
\* foo<newline>bar, with no trailing line break, and whose comment is tail.
C3_MultiLineBlock ==
    (cphase = "parsed" /\ text = C3_Text)
        => doc = << [name |-> Str_X,
                     value |-> <<"f", "o", "o", NL, "b", "a", "r">>,
                     comment |-> Str_tail] >>

\* The statements of a one-line text, as the parser sees them
StmtsOf(t) == split_statements(split_comment(strip(t))[1])
CommentOf(t) == split_comment(strip(t))[2]
HasAssign(stmt) == strip(stmt) # <<>> /\ contains(strip(stmt), "=")
NameOf(stmt) == strip(partition(strip(stmt), "=")[1])

\* The index of the last statement of t that assigns name n (0 if none)
LastAssign(t, n) ==
    LET S == {i \in 1..Len(StmtsOf(t)) :
                 HasAssign(StmtsOf(t)[i]) /\ NameOf(StmtsOf(t)[i]) = n}
    IN  IF S = {} THEN 0 ELSE CHOOSE i \in S : \A j \in S : j <= i

OneLine(t) == ~contains(t, NL) /\ ~contains(t, BACKSLASH)

\* C4: on a logical line of `;`-separated statements followed by a trailing
\* comment, the entry made by the last statement carries the comment and
\* the entry made by any earlier statement has an empty comment; in
\* particular `X=1; Y=2 # note` gives X = 1 with no comment and Y = 2 with
\* comment note.
C4_CommentOnLast ==
    (cphase = "parsed" /\ OneLine(text))
        => /\ \A k \in 1..Len(doc) :
                doc[k].comment =
                    IF LastAssign(text, doc[k].name) = Len(StmtsOf(text))
                    THEN CommentOf(text) ELSE <<>>
           /\ text = <<"X", "=", "1", ";", " ", "Y", "=", "2", " ", "#", " ",
                       "n", "o", "t", "e">>
                => doc = << [name |-> Str_X, value |-> Str_1, comment |-> <<>>],
                            [name |-> Str_Y, value |-> Str_2, comment |-> Str_note] >>

C4_Witness ==
    /\ cphase = "parsed"
    /\ text = <<"X", "=", "1", ";", " ", "Y", "=", "2", " ", "#", " ",
                "n", "o", "t", "e">>
    /\ Len(doc) = 2
    /\ doc[1].comment = <<>>
    /\ doc[2].comment = Str_note

(***************************************************************************)
(* The directive and environment editors as a state machine: a script is   *)
(* loaded and edited by a bounded number of calls; hist and ops record     *)
(* each call and the lines it started from.                                *)
(***************************************************************************)

MaxScriptLen == 3
MaxOps == 2

ScriptCatalog ==
    { <<"#", "!", "/", "b", "i", "n", "/", "b", "a", "s", "h">>,
      <<"#", "S", "B", "A", "T", "C", "H", " ", "-", "-", "n", "o", "d", "e", "s",
        "=", "1">>,                                         \* #SBATCH --nodes=1
      <<"#", "S", "B", "A", "T", "C", "H", " ", "-", "-", "t", "i", "m", "e",
        "=", "1">>,                                         \* #SBATCH --time=1
      <<" ", " ", "#", "S", "B", "A", "T", "C", "H", " ", " ", "-", "-", "t",
        "i", "m", "e">>,                                    \*   #SBATCH  --time
      <<"#", "S", "B", "A", "T", "C", "H", " ", "-", "-", "t", "i", "m", "e",
        "r", "=", "9">>,                                    \* #SBATCH --timer=9
      <<"e", "x", "p", "o", "r", "t", " ", "A", "=", "1">> }  \* export A=1

Str_time == <<"t", "i", "m", "e">>
Str_010000 == <<"0", "1", ":", "0", "0", ":", "0", "0">>

DirectiveNames == {Str_time}
DirectiveValues == {<<>>, <<Str_010000>>}
EnvKeys == {Str_A}
EnvValues == {Str_2}

InitEdit ==
    /\ lines \in SeqsUpTo(ScriptCatalog, MaxScriptLen)
    /\ hist = <<>>
    /\ ops = <<>>
    /\ sphase = "edit"
    /\ text = <<>>
    /\ doc = <<>>
    /\ out = <<>>
    /\ doc2 = <<>>
    /\ cphase = "off"
    /\ ScanOff
    /\ SubmitOff
    /\ VaspyOff

\* A call may be made while fewer than max_ops calls were made
CanCall(max_ops) == sphase = "edit" /\ Len(ops) < max_ops

\* The call op is recorded with the lines it started from
Recorded(op) ==
    /\ hist' = Append(hist, lines)
    /\ ops' = Append(ops, op)
    /\ UNCHANGED <<sphase, nonScriptVars>>

SetDirective ==
    /\ CanCall(MaxOps)
    /\ \E name \in DirectiveNames, value \in DirectiveValues :
         /\ lines' = set_directive(lines, name, value)
         /\ Recorded([op |-> "set_directive", name |-> name, value |-> value])

RemoveDirective ==
    /\ CanCall(MaxOps)
    /\ \E name \in DirectiveNames :
         /\ lines' = remove_directive(lines, name)
         /\ Recorded([op |-> "remove_directive", name |-> name])

SetEnvVar ==
    /\ CanCall(MaxOps)
    /\ \E key \in EnvKeys, value \in EnvValues :
         /\ lines' = set_env_var(lines, key, value)
         /\ Recorded([op |-> "set_env_var", name |-> key, value |-> value])

UnsetEnvVar ==
    /\ CanCall(MaxOps)
    /\ \E key \in EnvKeys :
         /\ lines' = unset_env_var(lines, key)
         /\ Recorded([op |-> "unset_env_var", name |-> key])

NextEdit == SetDirective \/ RemoveDirective \/ SetEnvVar \/ UnsetEnvVar

SpecEdit == InitEdit /\ [][NextEdit]_vars

(***************************************************************************)
(* Claims about the directive and environment editors                      *)
(***************************************************************************)

NOps == Len(ops)
LastOp == ops[NOps]
Before == hist[NOps]

\* Whether a line is one the call op looks for
Matches(op, line) ==
    IF op.op \in {"set_directive", "remove_directive"}
    THEN directive_match(strip(line), op.name)
    ELSE export_match(strip(line), op.name)

MatchIdx(op, ls) == {i \in 1..Len(ls) : Matches(op, ls[i])}

Min(S) == CHOOSE i \in S : \A j \in S : i <= j
Max(S) == CHOOSE i \in S : \A j \in S : j <= i

\* The canonical line a set call writes
Canonical(op) ==
    IF op.op = "set_directive"
    THEN IF op.value = <<>>
         THEN <<"#", "S", "B", "A", "T", "C", "H", " ", "-", "-">> \o op.name
         ELSE <<"#", "S", "B", "A", "T", "C", "H", " ", "-", "-">> \o op.name
              \o <<"=">> \o op.value[1]
    ELSE <<"e", "x", "p", "o", "r", "t", " ">> \o op.name \o <<"=">> \o op.value

\* set_directive(name, v) was called twice in a row
SetTwice ==
    /\ NOps >= 2
    /\ LastOp.op = "set_directive"
    /\ ops[NOps - 1] = LastOp

\* The listing has exactly one entry for the name, with the value set
ListedOnce(ls, op) ==
    LET D == list_directives(ls)
        E == {i \in 1..Len(D) : D[i].name = op.name}
    IN  Cardinality(E) = 1 /\ \A i \in E : D[i].value = op.value

\* C5 as stated: from any script, after set_directive(name, v) twice in a row
\* list_directives() has exactly one entry for name, its value is v, and the
\* script has at most one line more than before the first call.
C5_SetTwiceAnyScript ==
    SetTwice => /\ ListedOnce(lines, LastOp)
                /\ Len(lines) <= Len(hist[NOps - 1]) + 1

\* C5 amended: the same, from any script in which at most one line matches
\* name (set_directive rewrites the first matching line, list_directives
\* reports the last one).
C5_SetTwiceNoDuplicates ==
    (SetTwice /\ Cardinality(MatchIdx(LastOp, hist[NOps - 1])) <= 1)
        => /\ ListedOnce(lines, LastOp)
           /\ Len(lines) <= Len(hist[NOps - 1]) + 1

C5_Witness ==
    /\ SetTwice
    /\ MatchIdx(LastOp, hist[NOps - 1]) = {}
    /\ Len(lines) = Len(hist[NOps - 1]) + 1
    /\ ListedOnce(lines, LastOp)

\* The 0-based index at which C6 places a new directive line in ls
AnchorIdx(ls) ==
    LET S == {i \in 1..Len(ls) : startswith(strip(ls[i]), SBATCH_PREFIX)}
    IN  IF S # {} THEN Max(S)
        ELSE IF ls # <<>> /\ startswith(ls[1], SHEBANG) THEN 1 ELSE 0

C6_Script ==
    << <<"#", "!", "/", "b", "i", "n", "/", "b", "a", "s", "h">>,
       <<"#", "S", "B", "A", "T", "C", "H", " ", "-", "-", "n", "o", "d", "e", "s",
         "=", "1">> >>

C6_NewLine ==
    <<"#", "S", "B", "A", "T", "C", "H", " ", "-", "-", "t", "i", "m", "e", "=",
      "0", "1", ":", "0", "0", ":", "0", "0">>

\* C6: when set_directive(name, v) finds no line for name, the new line is
\* inserted right after the last line beginning with #SBATCH; without such a
\* line, at index 1 if line 0 is a shebang and at index 0 otherwise.  On
\* [#!/bin/bash, #SBATCH --nodes=1], set_directive(time, 01:00:00) puts the
\* new line at index 2.
C6_InsertionAnchor ==
    (NOps >= 1 /\ LastOp.op = "set_directive" /\ MatchIdx(LastOp, Before) = {})
        => /\ LET k == AnchorIdx(Before)
              IN  lines = SubSeq(Before, 1, k) \o <<Canonical(LastOp)>>
                          \o SubSeq(Before, k + 1, Len(Before))
           /\ (Before = C6_Script /\ LastOp.name = Str_time
                 /\ LastOp.value = <<Str_010000>>)
                => lines = C6_Script \o <<C6_NewLine>>

C6_Witness ==
    /\ NOps = 1
    /\ LastOp = [op |-> "set_directive", name |-> Str_time, value |-> <<Str_010000>>]
    /\ Before = C6_Script
    /\ Len(lines) = 3
    /\ lines[3] = C6_NewLine

\* C7: when some line matches, set_directive(name, v) and set_env_var(key, v)
\* replace the first matching line by the canonical line and leave every
\* other line, later duplicates included, and the line count unchanged.
C7_FirstMatchOnly ==
    (NOps >= 1 /\ LastOp.op \in {"set_directive", "set_env_var"}
       /\ MatchIdx(LastOp, Before) # {})
        => LET f == Min(MatchIdx(LastOp, Before))
           IN  /\ Len(lines) = Len(Before)
               /\ lines[f] = Canonical(LastOp)
               /\ \A i \in 1..Len(Before) : i # f => lines[i] = Before[i]

C7_Witness ==
    /\ NOps >= 1
    /\ LastOp.op = "set_directive"
    /\ Cardinality(MatchIdx(LastOp, Before)) >= 2
    /\ lines[Min(MatchIdx(LastOp, Before))] = Canonical(LastOp)
    /\ lines[Max(MatchIdx(LastOp, Before))] = Before[Max(MatchIdx(LastOp, Before))]
    /\ lines[Max(MatchIdx(LastOp, Before))] # Canonical(LastOp)

\* The lines of ls that the call op does not look for, in order
RECURSIVE Others(_, _)
Others(op, ls) ==
    IF ls = <<>> THEN <<>>
    ELSE (IF Matches(op, Head(ls)) THEN <<>> ELSE <<Head(ls)>>) \o Others(op, Tail(ls))

\* C8: after remove_directive(name) or unset_env_var(key) no matching line
\* remains, however many there were, and the non-matching lines are all
\* still there, unchanged and in their original order.
C8_RemoveAll ==
    (NOps >= 1 /\ LastOp.op \in {"remove_directive", "unset_env_var"})
        => /\ MatchIdx(LastOp, lines) = {}
           /\ lines = Others(LastOp, Before)

C8_Witness ==
    /\ NOps >= 1
    /\ LastOp.op = "remove_directive"
    /\ Cardinality(MatchIdx(LastOp, Before)) >= 2
    /\ Len(lines) = Len(Before) - 2
    /\ Len(lines) >= 1

(***************************************************************************)
(* The command option editor as a state machine, over scripts of command   *)
(* lines.  A call that raises still counts as a call: the op records it.   *)
(***************************************************************************)

MaxCmdLines == 2
MaxCmdOps == 2

CommandCatalog ==
    { <<"s", "r", "u", "n", " ", "-", "-", "n", "t", "a", "s", "k", "s", " ", "4",
        " ", "p", "r", "o", "g", ".", "s", "h">>,     \* srun --ntasks 4 prog.sh
      <<"s", "r", "u", "n", " ", "-", "-", "n", "t", "a", "s", "k", "s", "=", "4",
        " ", "p", "r", "o", "g", ".", "s", "h">>,     \* srun --ntasks=4 prog.sh
      <<"s", "r", "u", "n", " ", "-", "-", "n", "t", "a", "s", "k", "s", " ", "-",
        "x", " ", "p">>,                              \* srun --ntasks -x p
      <<"s", "r", "u", "n", " ", "\"", "a", " ", "b">>,             \* srun "a b
      <<"c", "m", "d", " ", "-", "a", " ", "-", "-", "b", "=", "2", " ", "-", "-",
        "c", "=", "3", " ", "p", "o", "s", "1">>,     \* cmd -a --b=2 --c=3 pos1
      <<"c", "m", "d", " ", "-", "-", "b", "=", "1", " ", "-", "-", "b", "=", "2",
        " ", "x">>,                                   \* cmd --b=1 --b=2 x
      <<"c", "m", "d", " ", "-", "-", "b", "=", "\"", "x">> }      \* cmd --b="x

Str_srun == <<"s", "r", "u", "n">>
Str_cmd == <<"c", "m", "d">>
Str_ntasks == <<"-", "-", "n", "t", "a", "s", "k", "s">>
Str_8 == <<"8">>
Opt_b == <<"-", "-", "b">>
Opt_c == <<"-", "-", "c">>

PreferredOrders == {<<Opt_c, Opt_b>>}
Occurrences == {<<>>, <<0>>, <<1>>}

InitCmd ==
    /\ lines \in SeqsUpTo(CommandCatalog, MaxCmdLines)
    /\ hist = <<>>
    /\ ops = <<>>
    /\ sphase = "edit"
    /\ text = <<>>
    /\ doc = <<>>
    /\ out = <<>>
    /\ doc2 = <<>>
    /\ cphase = "off"
    /\ ScanOff
    /\ SubmitOff
    /\ VaspyOff

SetOptionOnCommand ==
    /\ CanCall(MaxCmdOps)
    /\ \E which \in {"first", "all"} :
         LET r == set_option_on_command(lines, Str_srun, Str_ntasks, Str_8, which)
         IN  /\ lines' = r.lines
             /\ Recorded([op |-> "set_option_on_command", name |-> Str_srun,
                          flag |-> Str_ntasks, value |-> Str_8, which |-> which,
                          raised |-> r.raised])

NormalizeCommandOptions ==
    /\ CanCall(MaxCmdOps)
    /\ \E preferred_order \in PreferredOrders, occurrence \in Occurrences :
         LET r == normalize_command_options(lines, Str_cmd, preferred_order,
                                            occurrence)
         IN  /\ lines' = r.lines
             /\ Recorded([op |-> "normalize_command_options", name |-> Str_cmd,
                          preferred_order |-> preferred_order,
                          occurrence |-> occurrence, raised |-> r.raised])

SetOptionOnCommandAt ==
    /\ CanCall(MaxCmdOps)
    /\ \E occurrence \in 0..1 :
         LET r == set_option_on_command_at(lines, Str_srun, occurrence,
                                           Str_ntasks, Str_8)
         IN  /\ lines' = r.lines
             /\ Recorded([op |-> "set_option_on_command_at", name |-> Str_srun,
                          occurrence |-> occurrence, flag |-> Str_ntasks,
                          value |-> Str_8, raised |-> r.raised])

NextCmd == SetOptionOnCommand \/ SetOptionOnCommandAt \/ NormalizeCommandOptions

SpecCmd == InitCmd /\ [][NextCmd]_vars

(***************************************************************************)
(* Claims about the command option editor                                  *)
(***************************************************************************)

\* The 1-based positions of the lines of ls that begin with `command `
CommandIdx(ls, command) ==
    {i \in 1..Len(ls) : startswith(strip(ls[i]), command \o <<" ">>)}

TokensOf(line) == shlex_split(strip(line)).tokens

\* The positions of the tokens that carry the flag
FlagIdx(T, flag) ==
    {i \in 1..Len(T) : T[i] = flag \/ startswith(T[i], flag \o <<"=">>)}

\* The lines a completed set_option_on_command call rewrote
SetTargets ==
    LET C == CommandIdx(Before, LastOp.name)
    IN  IF C = {} THEN {}
        ELSE IF LastOp.which = "first" THEN {Min(C)} ELSE C

Line_ntasks_4 ==
    <<"s", "r", "u", "n", " ", "-", "-", "n", "t", "a", "s", "k", "s", " ", "4",
      " ", "p", "r", "o", "g", ".", "s", "h">>
Line_ntasks_8 ==
    <<"s", "r", "u", "n", " ", "-", "-", "n", "t", "a", "s", "k", "s", " ", "8",
      " ", "p", "r", "o", "g", ".", "s", "h">>
Line_ntasks_eq_4 ==
    <<"s", "r", "u", "n", " ", "-", "-", "n", "t", "a", "s", "k", "s", "=", "4",
      " ", "p", "r", "o", "g", ".", "s", "h">>
Line_ntasks_eq_8 ==
    <<"s", "r", "u", "n", " ", "-", "-", "n", "t", "a", "s", "k", "s", "=", "8",
      " ", "p", "r", "o", "g", ".", "s", "h">>

\* C9: setting an option that is already on a command line keeps its style.
\* If the first token carrying the flag is the bare flag and the token after
\* it does not begin with `-`, that next token becomes the value; if it has
\* the form flag=..., it becomes flag=value; no other token changes.
\* `srun --ntasks 4 prog.sh` gives `srun --ntasks 8 prog.sh` and
\* `srun --ntasks=4 prog.sh` gives `srun --ntasks=8 prog.sh`.
C9_OptionStyleKept ==
    (NOps >= 1 /\ LastOp.op = "set_option_on_command" /\ ~LastOp.raised)
        => \A i \in SetTargets :
             LET T == TokensOf(Before[i])
                 F == FlagIdx(T, LastOp.flag)
             IN  /\ F # {} =>
                     LET idx == Min(F)
                     IN  /\ (T[idx] = LastOp.flag /\ idx < Len(T)
                               /\ ~startswith(T[idx + 1], <<"-">>))
                              => lines[i] = join(<<" ">>,
                                                 [T EXCEPT ![idx + 1] = LastOp.value])
                         /\ startswith(T[idx], LastOp.flag \o <<"=">>)
                              => lines[i] = join(<<" ">>,
                                     [T EXCEPT ![idx] =
                                         LastOp.flag \o <<"=">> \o LastOp.value])
                 /\ Before[i] = Line_ntasks_4 => lines[i] = Line_ntasks_8
                 /\ Before[i] = Line_ntasks_eq_4 => lines[i] = Line_ntasks_eq_8

C9_Witness ==
    /\ NOps >= 1
    /\ LastOp.op = "set_option_on_command"
    /\ ~LastOp.raised
    /\ \E i, j \in SetTargets :
          /\ Before[i] = Line_ntasks_4 /\ lines[i] = Line_ntasks_8
          /\ Before[j] = Line_ntasks_eq_4 /\ lines[j] = Line_ntasks_eq_8

\* The lines a completed normalize_command_options call rewrote
NormalizeTargets ==
    LET C == CommandIdx(Before, LastOp.name)
    IN  IF LastOp.occurrence = <<>> THEN C
        ELSE {i \in C : Cardinality({j \in C : j < i}) = LastOp.occurrence[1]}

IsNameValue(tok) == startswith(tok, <<"-", "-">>) /\ contains(tok, "=")
NameOfOpt(tok) == SubSeq(tok, 1, find(tok, "=") - 1)

\* The --name=value tokens of opts for the names of order, name by name
RECURSIVE PreferredPart(_, _)
PreferredPart(opts, order) ==
    IF order = <<>> THEN <<>>
    ELSE SelectSeq(opts, LAMBDA t : IsNameValue(t) /\ NameOfOpt(t) = Head(order))
         \o PreferredPart(opts, Tail(order))

\* The line C10 describes for the tokens T
Normalized(T, order) ==
    LET P == {j \in 2..Len(T) : ~startswith(T[j], <<"-">>)}
        rest_start == IF P = {} THEN Len(T) + 1 ELSE Min(P)
        opts == SubSeq(T, 2, rest_start - 1)
        named == {order[k] : k \in 1..Len(order)}
    IN  join(<<" ">>,
             <<T[1]>> \o PreferredPart(opts, order)
             \o SelectSeq(opts, LAMBDA t : ~(IsNameValue(t) /\ NameOfOpt(t) \in named))
             \o SubSeq(T, rest_start, Len(T)))

\* C10: normalize_command_options rebuilds a matching line as the command
\* name, the --name=value options named in preferred_order in that order,
\* the remaining options in their original order, and the positional run,
\* joined by single blanks.
C10_Normalized ==
    (NOps >= 1 /\ LastOp.op = "normalize_command_options" /\ ~LastOp.raised)
        => \A i \in NormalizeTargets :
              lines[i] = Normalized(TokensOf(Before[i]), LastOp.preferred_order)

(***************************************************************************)
(* The two scanners of parse_config_text, applied to any short line        *)
(***************************************************************************)

MaxScanLen == 4

ScanAlphabet == {QUOTE, "#", "!", ";", "a", " "}

InitScan ==
    /\ scan_line \in SeqsUpTo(ScanAlphabet, MaxScanLen)
    /\ scan_comment = <<>>
    /\ scan_stmts = <<>>
    /\ CodecOff
    /\ ScriptOff
    /\ SubmitOff
    /\ VaspyOff

SplitComment ==
    /\ scan_comment = <<>>
    /\ scan_comment' = <<split_comment(scan_line)>>
    /\ UNCHANGED <<scan_line, scan_stmts, nonScanVars>>

SplitStatements ==
    /\ scan_stmts = <<>>
    /\ scan_stmts' = <<split_statements(scan_line)>>
    /\ UNCHANGED <<scan_line, scan_comment, nonScanVars>>

NextScan == SplitComment \/ SplitStatements

SpecScan == InitScan /\ [][NextScan]_vars

\* The number of double quotes of s before position i
QuotesBefore(s, i) == Cardinality({j \in 1..(i - 1) : s[j] = QUOTE})

\* The positions of s holding one of the characters cs after an even number
\* of double quotes
OutsideQuotes(s, cs) ==
    {i \in 1..Len(s) : s[i] \in cs /\ QuotesBefore(s, i) % 2 = 0}

\* The k-th smallest element of the set of numbers S
Nth(S, k) == CHOOSE x \in S : Cardinality({y \in S : y < x}) = k - 1

\* What the claim says _split_comment returns for s
CommentCut(s) ==
    LET cuts == OutsideQuotes(s, {"#", "!"})
    IN  IF cuts = {} THEN <<s, <<>>>>
        ELSE LET c == Nth(cuts, 1)
             IN  <<SubSeq(s, 1, c - 1), strip(SubSeq(s, c + 1, Len(s)))>>

\* What the claim says _split_statements returns for s: the pieces between
\* the semicolons outside quotes
StatementCuts(s) ==
    LET seps == OutsideQuotes(s, {";"})
        n    == Cardinality(seps)
        edge(k) == IF k = 0 THEN 0 ELSE IF k = n + 1 THEN Len(s) + 1
                   ELSE Nth(seps, k)
    IN  [k \in 1..(n + 1) |-> SubSeq(s, edge(k - 1) + 1, edge(k) - 1)]

\* C12: _split_comment cuts the line at the first # or ! that follows an
\* even number of double quotes and returns the trimmed remainder as the
\* comment, the whole line and an empty comment when there is none;
\* _split_statements splits on ; only where the count of double quotes
\* before it is even, and always returns at least one statement.
C12_Scanners ==
    /\ scan_comment # <<>> => scan_comment[1] = CommentCut(scan_line)
    /\ scan_stmts # <<>> =>
         /\ scan_stmts[1] = StatementCuts(scan_line)
         /\ Len(scan_stmts[1]) >= 1

\* Both scanners have run on a line that holds a quoted # and a quoted ;
\* before an unquoted ; and an unquoted comment mark
C12_Witness ==
    /\ scan_comment # <<>>
    /\ scan_stmts # <<>>
    /\ \E i, j \in 1..Len(scan_line) :
         /\ scan_line[i] \in {"#", "!", ";"}
         /\ QuotesBefore(scan_line, i) % 2 = 1
         /\ scan_line[j] \in {"#", "!", ";"}
         /\ QuotesBefore(scan_line, j) % 2 = 0
         /\ i < j
    /\ Len(scan_stmts[1]) + Len(scan_comment[1][2]) >= 2

\* After Parse, the text has been read in full
Parsed == cphase \in {"parsed", "serialized", "reparsed"}

\* The text leaves the parser outside any quoted block and any continuation,
\* so that a line appended to it is read as a line of its own
ClosedText(t) ==
    /\ ~parse_lines(ParserInit, merge_continuations(splitlines(t)), 1).in_multiline
    /\ ~endswith(rstrip(t), <<BACKSLASH>>)

Str_9 == <<"9">>

\* The one-statement line that assigns 9 to name
Reassignment(name) == name \o <<"=">> \o Str_9

\* C18: every parsed document maps each name to exactly one entry, every
\* name is a non-empty string, and assigning again to a name of the document
\* overwrites its value and comment at the position the name already has.
C18_UniqueNonEmptyNames ==
    Parsed =>
      /\ \A i, j \in 1..Len(doc) : doc[i].name = doc[j].name => i = j
      /\ \A i \in 1..Len(doc) : doc[i].name # <<>>
      /\ \A i \in 1..Len(doc) :
           LET name  == doc[i].name
               entry == [name |-> name, value |-> Str_9, comment |-> <<>>]
           IN  (ClosedText(text) /\ parse_config_text(Reassignment(name)) = <<entry>>)
               => parse_config_text(text \o <<NL>> \o Reassignment(name))
                    = [doc EXCEPT ![i] = entry]

\* The last statement of a line, trimmed
LastStmt(line) == strip(StmtsOf(line)[Len(StmtsOf(line))])

\* The value text of an assigning statement: what follows its first `=`
ValueOf(stmt) == strip(partition(strip(stmt), "=")[2])

\* The last statement of the line assigns to a name a value that starts with
\* a double quote and holds no second one: the line ends inside a block
OpensBlock(line) ==
    /\ HasAssign(LastStmt(line))
    /\ NameOf(LastStmt(line)) # <<>>
    /\ ValueOf(LastStmt(line)) # <<>>
    /\ Head(ValueOf(LastStmt(line))) = QUOTE
    /\ ~contains(Tail(ValueOf(LastStmt(line))), QUOTE)

\* The segments of the block that raw line k of L opens and the end of L
\* leaves open: the text after the opening quote if there is any, then every
\* later line, trimmed
BlockSegments(L, k) ==
    LET rest == Tail(ValueOf(LastStmt(L[k])))
    IN  (IF rest # <<>> THEN <<rest>> ELSE <<>>)
        \o [j \in 1..(Len(L) - k) |-> strip(L[k + j])]

\* Raw line k of L opens a block that no later line closes, and no line from
\* k on is continued
EndsInsideBlock(L, k) ==
    /\ ClosedText(join(<<NL>>, SubSeq(L, 1, k - 1)))
    /\ OpensBlock(L[k])
    /\ \A j \in (k + 1)..Len(L) : ~contains(L[j], QUOTE)
    /\ \A j \in k..Len(L) : ~endswith(rstrip(L[j]), <<BACKSLASH>>)

\* C19: parsing never fails on malformed input: a statement without `=` is
\* dropped silently (every entry of the document is named by a statement
\* that has one), and when the text ends inside a multi-line quoted block
\* opened for name N the document holds N with the segments accumulated so
\* far joined by newline.
C19_UnterminatedBlock ==
    Parsed =>
      /\ OneLine(text) =>
           \A i \in 1..Len(doc) :
             \E k \in 1..Len(StmtsOf(text)) :
               /\ HasAssign(StmtsOf(text)[k])
               /\ NameOf(StmtsOf(text)[k]) = doc[i].name
      /\ \A k \in 1..Len(splitlines(text)) :
           EndsInsideBlock(splitlines(text), k) =>
             \E i \in 1..Len(doc) :
               /\ doc[i].name = NameOf(LastStmt(splitlines(text)[k]))
               /\ doc[i].value = join(<<NL>>, BlockSegments(splitlines(text), k))

\* The raw lines L with the backslash that ends line k removed and line k + 1
\* appended to it after one blank
JoinedWithNext(L, k) ==
    LET stripped == rstrip(L[k])
        joined   == SubSeq(stripped, 1, Len(stripped) - 1) \o <<" ">> \o L[k + 1]
    IN  SubSeq(L, 1, k - 1) \o <<joined>> \o SubSeq(L, k + 2, Len(L))

\* C20: for any text in which a raw line ends in a backslash, parsing gives
\* the same document as parsing the text in which that backslash is removed
\* and the next raw line is appended after exactly one separating space,
\* also when the continuation chains over more than two lines.
C20_ContinuationJoin ==
    Parsed =>
      \A k \in 1..(Len(splitlines(text)) - 1) :
        endswith(rstrip(splitlines(text)[k]), <<BACKSLASH>>) =>
          parse_config_text(join(<<NL>>, JoinedWithNext(splitlines(text), k))) = doc

\* The line the occurrence-th (from 0) line of Before that begins with the
\* command of a set_option_on_command_at call
AtTargets ==
    LET C == CommandIdx(Before, LastOp.name)
    IN  {i \in C : Cardinality({j \in C : j < i}) = LastOp.occurrence}

\* The lines the last call selected for editing
Selected ==
    IF LastOp.op = "set_option_on_command" THEN SetTargets
    ELSE IF LastOp.op = "set_option_on_command_at" THEN AtTargets
    ELSE NormalizeTargets

\* A line with an odd number of double quotes and no other quoting character
Unbalanced(line) ==
    /\ Cardinality({i \in 1..Len(line) : line[i] = QUOTE}) % 2 = 1
    /\ \A i \in 1..Len(line) : line[i] \notin {SQUOTE, BACKSLASH}

OptionOps ==
    {"set_option_on_command", "set_option_on_command_at", "normalize_command_options"}

\* C14: if a line that set_option_on_command, set_option_on_command_at or
\* normalize_command_options selected for editing has unbalanced quotes, the
\* call ends with an error that reaches the caller, and that line is neither
\* skipped without the error nor rewritten.
C14_UnbalancedRaises ==
    (NOps >= 1 /\ LastOp.op \in OptionOps)
        => \A i \in Selected :
             Unbalanced(Before[i]) =>
               /\ LastOp.raised
               /\ Len(lines) = Len(Before)
               /\ lines[i] = Before[i]

\* normalize_command_options was called on a script whose second matching
\* line has unbalanced quotes, after rewriting the first
C14_Witness ==
    /\ NOps >= 1
    /\ LastOp.op = "normalize_command_options"
    /\ LastOp.raised
    /\ \E i, j \in Selected :
         /\ i < j
         /\ Unbalanced(Before[j])
         /\ lines[i] # Before[i]

(***************************************************************************)
(* The whole editing surface of SlurmScript as a state machine: any short  *)
(* sequence of editor calls on a script made of lines of a sample script.  *)
(***************************************************************************)

MaxScriptOps == 2

Line_shebang == <<"#", "!", "/", "b", "i", "n", "/", "b", "a", "s", "h">>
Line_time_1 ==
    <<"#", "S", "B", "A", "T", "C", "H", " ", "-", "-", "t", "i", "m", "e", "=", "1">>
Line_module_gcc ==
    <<"m", "o", "d", "u", "l", "e", " ", "l", "o", "a", "d", " ", "g", "c", "c">>
Line_module_mpi ==
    <<"m", "o", "d", "u", "l", "e", " ", "l", "o", "a", "d", " ", "m", "p", "i">>

\* #!/bin/bash, #SBATCH --time=1, module load gcc, module load mpi,
\* srun --ntasks 4 prog.sh
SampleScript ==
    << Line_shebang, Line_time_1, Line_module_gcc, Line_module_mpi, Line_ntasks_4 >>

\* The lines of s at the positions S, in the order of s
Pick(s, S) == [k \in 1..Cardinality(S) |-> s[Nth(S, k)]]

InitScript ==
    /\ lines \in {Pick(SampleScript, S) : S \in SUBSET (1..Len(SampleScript))}
    /\ hist = <<>>
    /\ ops = <<>>
    /\ sphase = "edit"
    /\ CodecOff
    /\ ScanOff
    /\ SubmitOff
    /\ VaspyOff

Str_load == <<"l", "o", "a", "d">>
Str_gcc == <<"g", "c", "c">>
Str_fftw == <<"f", "f", "t", "w">>
Str_hostname == <<"s", "r", "u", "n", " ", "h", "o", "s", "t", "n", "a", "m", "e">>
Str_run == <<"r", "u", "n">>

ScriptSetDirective ==
    /\ CanCall(MaxScriptOps)
    /\ lines' = set_directive(lines, Str_time, <<Str_2>>)
    /\ Recorded([op |-> "set_directive", name |-> Str_time, value |-> <<Str_2>>])

ScriptRemoveDirective ==
    /\ CanCall(MaxScriptOps)
    /\ lines' = remove_directive(lines, Str_time)
    /\ Recorded([op |-> "remove_directive", name |-> Str_time])

AddModule ==
    /\ CanCall(MaxScriptOps)
    /\ \E position \in {"after_last_module", "before_first_non_shebang", "end"} :
         /\ lines' = add_module(lines, Str_load, Str_fftw, position)
         /\ Recorded([op |-> "add_module", action |-> Str_load, name |-> Str_fftw,
                      position |-> position])

RemoveModule ==
    /\ CanCall(MaxScriptOps)
    /\ lines' = remove_module(lines, Str_gcc)
    /\ Recorded([op |-> "remove_module", name |-> Str_gcc])

ScriptSetEnvVar ==
    /\ CanCall(MaxScriptOps)
    /\ lines' = set_env_var(lines, Str_A, Str_2)
    /\ Recorded([op |-> "set_env_var", name |-> Str_A, value |-> Str_2])

ScriptUnsetEnvVar ==
    /\ CanCall(MaxScriptOps)
    /\ lines' = unset_env_var(lines, Str_A)
    /\ Recorded([op |-> "unset_env_var", name |-> Str_A])

AddBodyCommand ==
    /\ CanCall(MaxScriptOps)
    /\ \E where \in {"end", "top"} :
         /\ lines' = add_body_command(lines, Str_hostname, where)
         /\ Recorded([op |-> "add_body_command", command |-> Str_hostname,
                      where |-> where])

ScriptSetOptionOnCommand ==
    /\ CanCall(MaxScriptOps)
    /\ LET r == set_option_on_command(lines, Str_srun, Str_ntasks, Str_8, "all")
       IN  /\ lines' = r.lines
           /\ Recorded([op |-> "set_option_on_command", name |-> Str_srun,
                        flag |-> Str_ntasks, value |-> Str_8, which |-> "all",
                        raised |-> r.raised])

ScriptSetOptionOnCommandAt ==
    /\ CanCall(MaxScriptOps)
    /\ LET r == set_option_on_command_at(lines, Str_srun, 1, Str_ntasks, Str_8)
       IN  /\ lines' = r.lines
           /\ Recorded([op |-> "set_option_on_command_at", name |-> Str_srun,
                        occurrence |-> 1, flag |-> Str_ntasks, value |-> Str_8,
                        raised |-> r.raised])

ScriptNormalizeCommandOptions ==
    /\ CanCall(MaxScriptOps)
    /\ LET r == normalize_command_options(lines, Str_srun, <<Str_ntasks>>, <<>>)
       IN  /\ lines' = r.lines
           /\ Recorded([op |-> "normalize_command_options", name |-> Str_srun,
                        preferred_order |-> <<Str_ntasks>>, occurrence |-> <<>>,
                        raised |-> r.raised])

AddComment ==
    /\ CanCall(MaxScriptOps)
    /\ \E where \in {"end", "top"} :
         /\ lines' = add_comment(lines, Str_run, where)
         /\ Recorded([op |-> "add_comment", text |-> Str_run, where |-> where])

AddCommentAboveCommand ==
    /\ CanCall(MaxScriptOps)
    /\ \E which \in {"first", "all"} :
         /\ lines' = add_comment_above_command(lines, Str_srun, Str_run, which)
         /\ Recorded([op |-> "add_comment_above_command", name |-> Str_srun,
                      text |-> Str_run, which |-> which])

AddCommentAboveLineContaining ==
    /\ CanCall(MaxScriptOps)
    /\ \E which \in {"first", "all"} :
         /\ lines' = add_comment_above_line_containing(lines, Str_load, Str_run, which)
         /\ Recorded([op |-> "add_comment_above_line_containing", name |-> Str_load,
                      text |-> Str_run, which |-> which])

NextScript ==
    \/ ScriptSetDirective
    \/ ScriptRemoveDirective
    \/ AddModule
    \/ RemoveModule
    \/ ScriptSetEnvVar
    \/ ScriptUnsetEnvVar
    \/ AddBodyCommand
    \/ ScriptSetOptionOnCommand
    \/ ScriptSetOptionOnCommandAt
    \/ ScriptNormalizeCommandOptions
    \/ AddComment
    \/ AddCommentAboveCommand
    \/ AddCommentAboveLineContaining

SpecScript == InitScript /\ [][NextScript]_vars

\* Whether line satisfies the predicate by which the call op picks the lines
\* it edits; calls that only add a line pick none
Targets(op, line) ==
    IF op.op \in {"set_directive", "remove_directive"}
    THEN directive_match(strip(line), op.name)
    ELSE IF op.op \in {"set_env_var", "unset_env_var"}
    THEN export_match(strip(line), op.name)
    ELSE IF op.op = "remove_module"
    THEN is_module_line(line) /\ str_in(op.name, line)
    ELSE IF op.op \in OptionOps \cup {"add_comment_above_command"}
    THEN is_command(line, op.name)
    ELSE IF op.op = "add_comment_above_line_containing"
    THEN str_in(op.name, line)
    ELSE FALSE

\* The script as loaded
Loaded == IF NOps = 0 THEN lines ELSE hist[1]

\* The lines of the loaded script that no call made so far targeted
Untargeted ==
    SelectSeq(Loaded, LAMBDA line : \A k \in 1..NOps : ~Targets(ops[k], line))

\* a can be obtained from b by deleting lines of b
RECURSIVE IsSubsequence(_, _)
IsSubsequence(a, b) ==
    IF a = <<>> THEN TRUE
    ELSE IF b = <<>> THEN FALSE
    ELSE IF Head(a) = Head(b) THEN IsSubsequence(Tail(a), Tail(b))
    ELSE IsSubsequence(a, Tail(b))

\* C11: after any sequence of editor calls, every line of the loaded script
\* that none of the calls targeted (it matched none of their name, command
\* or substring predicates) is still present, character for character, and
\* these lines keep their original relative order.
C11_UntargetedLinesKept == IsSubsequence(Untargeted, lines)

\* Two calls were made that rewrote or removed lines, and at least two
\* loaded lines were targeted by neither
C11_Witness ==
    /\ NOps >= 2
    /\ ops[1].op = "remove_module"
    /\ ops[2].op = "set_option_on_command"
    /\ Len(lines) < Len(Loaded)
    /\ \E i \in 1..Len(lines) : lines[i] \notin {Loaded[j] : j \in 1..Len(Loaded)}
    /\ Len(Untargeted) >= 2

\* The positions of ls that qualify for the comment of the call op
Qualifying(op, ls) == {i \in 1..Len(ls) : Targets(op, ls[i])}

\* The positions above which the call op puts its comment
CommentTargets(op, ls) ==
    IF op.which = "all" \/ Qualifying(op, ls) = {} THEN Qualifying(op, ls)
    ELSE {Min(Qualifying(op, ls))}

\* ls with the line c put immediately before each line at a position of T
RECURSIVE WithLineAbove(_, _, _, _)
WithLineAbove(ls, T, c, i) ==
    IF i > Len(ls) THEN <<>>
    ELSE (IF i \in T THEN <<c, ls[i]>> ELSE <<ls[i]>>) \o WithLineAbove(ls, T, c, i + 1)

CommentAboveOps == {"add_comment_above_command", "add_comment_above_line_containing"}

\* C13: add_comment_above_command and add_comment_above_line_containing put
\* exactly one `# text` line immediately before every qualifying line
\* (which=all) or before the first only (which=first) and leave every other
\* line as it was, so that deleting the inserted lines gives back the
\* original sequence; when no line qualifies the script is unchanged.
C13_CommentAbove ==
    (NOps >= 1 /\ LastOp.op \in CommentAboveOps)
        => LET T == CommentTargets(LastOp, Before)
           IN  /\ lines = WithLineAbove(Before, T, <<"#", " ">> \o LastOp.text, 1)
               /\ Len(lines) = Len(Before) + Cardinality(T)
               /\ Qualifying(LastOp, Before) = {} => lines = Before

\* add_comment_above_command was called with which=first on a script with
\* two qualifying lines, the first of which is not the first line
C13_Witness ==
    /\ NOps >= 1
    /\ LastOp.op = "add_comment_above_command"
    /\ LastOp.which = "first"
    /\ Cardinality(Qualifying(LastOp, Before)) >= 2
    /\ Min(Qualifying(LastOp, Before)) >= 2
    /\ Len(lines) = Len(Before) + 1

(***************************************************************************)
(* SlurmScript.submit as a state machine: the script is written to a       *)
(* temporary file, sbatch is run on it, the finally clause runs, and the   *)
(* call returns a job id or raises.                                        *)
(***************************************************************************)

Out_job_42 == JOB_PATTERN \o <<"4", "2">>
Out_job_007_nl == JOB_PATTERN \o <<"0", "0", "7", NL>>
Out_job_in_text ==
    <<"s", "b", "a", "t", "c", "h", ":", " ">> \o JOB_PATTERN
    \o <<"7", " ", "o", "n", " ", "c", "1">>
Out_job_no_digits == JOB_PATTERN \o <<"x", "1">>
Out_job_second == JOB_PATTERN \o <<"x", " ">> \o JOB_PATTERN \o <<"1", "2">>
Out_job_cut == SubSeq(JOB_PATTERN, 1, Len(JOB_PATTERN) - 1)
Out_error == <<"e", "r", "r", "o", "r">>

\* What sbatch may print on its standard output
StdoutCatalog ==
    { Out_job_42, Out_job_007_nl, Out_job_in_text, Out_job_no_digits,
      Out_job_second, Out_job_cut, Out_error, <<>> }

\* Exit codes of sbatch; a negative one stands for death by a signal
ReturnCodes == {0, 1, -9}

\* What subprocess.run may give: an exception, or a completed process
ProcOutcomes ==
    {[launched |-> FALSE, returncode |-> 0, stdout |-> <<>>]}
    \cup {[launched |-> TRUE, returncode |-> rc, stdout |-> so] :
             rc \in ReturnCodes, so \in StdoutCatalog}

InitSubmit ==
    /\ lines \in {Pick(SampleScript, S) : S \in SUBSET (1..Len(SampleScript))}
    /\ hist = <<>>
    /\ ops = <<>>
    /\ sphase = "off"
    /\ submit_pc = "start"
    /\ keep_script \in BOOLEAN
    /\ tmp_file = <<>>
    /\ proc = <<>>
    /\ job = <<>>
    /\ CodecOff
    /\ ScanOff
    /\ VaspyOff

nonSubmitVars == <<codecVars, scriptVars, scanVars, vaspyVars>>

\* The script text is written to a new temporary file that outlives the
\* with statement (delete=False)
WriteScript ==
    /\ submit_pc = "start"
    /\ tmp_file' = <<to_string(lines)>>
    /\ submit_pc' = "run"
    /\ UNCHANGED <<keep_script, proc, job, nonSubmitVars>>

\* subprocess.run raises or returns a completed process
RunSbatch ==
    /\ submit_pc = "run"
    /\ \E p \in ProcOutcomes : proc' = <<p>>
    /\ submit_pc' = "finally"
    /\ UNCHANGED <<keep_script, tmp_file, job, nonSubmitVars>>

\* The finally clause, reached after a return and after a raise alike
FinallyUnlink ==
    /\ submit_pc = "finally"
    /\ tmp_file' = IF unlink_in_finally(keep_script, proc[1].launched)
                   THEN <<>> ELSE tmp_file
    /\ submit_pc' = "after"
    /\ UNCHANGED <<keep_script, proc, job, nonSubmitVars>>

\* The RuntimeError of a failed launch leaves submit, or the output of the
\* completed process is read
SubmitEnds ==
    /\ submit_pc = "after"
    /\ job' = <<IF proc[1].launched THEN submit_result(proc[1])
                ELSE Raised("Failed to execute sbatch")>>
    /\ submit_pc' = "done"
    /\ UNCHANGED <<keep_script, tmp_file, proc, nonSubmitVars>>

NextSubmit == WriteScript \/ RunSbatch \/ FinallyUnlink \/ SubmitEnds

SpecSubmit == InitSubmit /\ [][NextSubmit]_vars

\* The positions of s where `Submitted batch job ` is followed by a digit
PatternAt(s) ==
    {i \in 1..Len(s) :
        /\ i + Len(JOB_PATTERN) <= Len(s)
        /\ SubSeq(s, i, i + Len(JOB_PATTERN) - 1) = JOB_PATTERN
        /\ s[i + Len(JOB_PATTERN)] \in {DIGITS[d] : d \in 1..Len(DIGITS)}}

\* The digits of s from position j up to the first character that is none
DigitsFrom(s, j) ==
    LET stops == {k \in j..Len(s) : ~is_digit(s[k])}
    IN  SubSeq(s, j, IF stops = {} THEN Len(s) ELSE Min(stops) - 1)

\* C15: submit returns a job id if and only if sbatch exits with code 0 and
\* its standard output contains `Submitted batch job <digits>`, and the id
\* is the number those digits write; in every other outcome (sbatch cannot
\* be launched, a non-zero exit even with the pattern, a zero exit without
\* it) submit raises and returns no id.
C15_JobIdIffSuccess ==
    submit_pc = "done" =>
      LET p == proc[1]
          r == job[1]
          success == p.launched /\ p.returncode = 0 /\ PatternAt(p.stdout) # {}
      IN  /\ r.returned <=> success
          /\ success =>
               r.id = int_of(DigitsFrom(p.stdout,
                                        Min(PatternAt(p.stdout)) + Len(JOB_PATTERN)))
          /\ ~success => (r.error # "" /\ r.id = 0)

\* submit returned the id 12 read after a first occurrence of the words that
\* no digit follows
C15_Witness ==
    /\ submit_pc = "done"
    /\ proc[1].stdout = Out_job_second
    /\ job[1].returned
    /\ job[1].id = 12

MaxBodyOps == 2

Dir_root == <<SLASH, "c">>
InputPaths == {<<>>, <<<<"i", "n">>>>, <<<<SLASH, "d">>>>}
OutputPaths == {<<>>, <<<<"o">>>>}

FileNames == {File_INCAR, File_POSCAR, File_POTCAR, File_KPOINTS}

\* Every directory a Vaspy object of the specification can resolve
Dirs ==
    {get_path([root_path |-> Dir_root, input_path |-> i, output_path |-> o], opt) :
        i \in InputPaths, o \in OutputPaths, opt \in {"root", "input", "output"}}

AllPaths == {path_join(d, f) : d \in Dirs, f \in FileNames}

Text_prec == <<"P", "R", "E", "C", " ", "=", " ", "L", "o", "w">>
Text_old == <<"X", " ", "=", " ", "1">>
\* Six lines, the sixth naming the species Si
Text_poscar ==
    <<"t", NL, "1", NL, "a", NL, "b", NL, "c", NL, "S", "i", NL, "1", NL>>
Text_short == <<"t", NL, "1", NL>>
Text_paw == <<"P", "A", "W">>

Str_IBRION == <<"I", "B", "R", "I", "O", "N">>
Str_PREC == <<"P", "R", "E", "C">>

\* Arguments of incar.update
ParamCatalog ==
    { << [name |-> Str_IBRION, value |-> Str_2, comment |-> Str_note] >>,
      << [name |-> Str_PREC, value |-> Str_A, comment |-> <<>>] >> }

InitVaspy ==
    /\ \E i \in InputPaths, o \in OutputPaths, a \in BOOLEAN,
          in_incar \in {<<>>, <<Text_prec>>}, root_incar \in {<<>>, <<Text_old>>},
          in_poscar \in {<<>>, <<Text_poscar>>} :
         LET v == [root_path |-> Dir_root, input_path |-> i, output_path |-> o,
                   auto_save |-> a, incar |-> <<>>, poscar |-> <<>>,
                   potcar |-> <<>>, kpoints |-> <<>>, calls |-> 0,
                   assigned |-> FALSE]
             input_dir == get_path(v, "input")
         IN  /\ vaspy = v
             /\ files = [p \in AllPaths |->
                           IF p = path_join(input_dir, File_INCAR) THEN in_incar
                           ELSE IF p = path_join(Dir_root, File_INCAR) THEN root_incar
                           ELSE IF p = path_join(input_dir, File_POSCAR) THEN in_poscar
                           ELSE <<>>]
    /\ writes = {}
    /\ vpc = "constructed"
    /\ CodecOff
    /\ ScriptOff
    /\ ScanOff
    /\ SubmitOff

nonVaspyVars == <<codecVars, scriptVars, scanVars, submitVars>>

\* __enter__: read_inputs loads the four files from the input directory and,
\* with a POSCAR and no POTCAR, generates a POTCAR and saves it there.  The
\* generation finds the potential files of the species or does not.
Enter ==
    /\ vpc = "constructed"
    /\ LET input_dir == get_path(vaspy, "input")
           poscar == content_load(files, path_join(input_dir, File_POSCAR))
           potcar == content_load(files, path_join(input_dir, File_POTCAR))
           generates == potcar = <<>> /\ poscar # <<>>
       IN  \E generated \in (IF generates /\ species(poscar) # <<>>
                             THEN {<<>>, Text_paw} ELSE {<<>>}) :
             /\ vaspy' = [vaspy EXCEPT
                            !.incar = incar_load(files, path_join(input_dir, File_INCAR)),
                            !.poscar = poscar,
                            !.potcar = IF generates THEN generated ELSE potcar,
                            !.kpoints = content_load(files,
                                                     path_join(input_dir, File_KPOINTS))]
             /\ files' = IF generates
                         THEN save_content(files, path_join(input_dir, File_POTCAR),
                                           generated)
                         ELSE files
             /\ writes' = IF generates /\ generated # <<>>
                          THEN writes \cup {[path |-> path_join(input_dir, File_POTCAR),
                                             phase |-> "enter"]}
                          ELSE writes
    /\ vpc' = "inside"
    /\ UNCHANGED nonVaspyVars

InBody == vpc = "inside" /\ vaspy.calls < MaxBodyOps

\* mgr.incar.update(params) in the body
IncarUpdate ==
    /\ InBody
    /\ \E params \in ParamCatalog :
         vaspy' = [vaspy EXCEPT !.incar = incar_update(vaspy.incar, params),
                                !.calls = vaspy.calls + 1]
    /\ UNCHANGED <<files, writes, vpc, nonVaspyVars>>

\* mgr.poscar = value in the body
PoscarAssign ==
    /\ InBody
    /\ \E value \in {Text_short, <<>>} :
         vaspy' = [vaspy EXCEPT !.poscar = value, !.calls = vaspy.calls + 1,
                                !.assigned = TRUE]
    /\ UNCHANGED <<files, writes, vpc, nonVaspyVars>>

\* The body raises
BodyRaises ==
    /\ vpc = "inside"
    /\ vpc' = "raised"
    /\ UNCHANGED <<vaspy, files, writes, nonVaspyVars>>

\* The paths save_all writes: the files it leaves in an empty file system
saved_paths(v) ==
    {p \in AllPaths : exists(save_all(v, [q \in AllPaths |-> <<>>]), p)}

\* __exit__: save_all after a body that did not raise when auto_save is on;
\* an exception of the body is logged and propagates (return False)
Exit ==
    /\ vpc \in {"inside", "raised"}
    /\ IF exit_saves(vpc = "raised", vaspy.auto_save)
       THEN /\ files' = save_all(vaspy, files)
            /\ writes' = writes \cup {[path |-> p, phase |-> "exit"] :
                                         p \in saved_paths(vaspy)}
       ELSE UNCHANGED <<files, writes>>
    /\ vpc' = IF vpc = "inside" THEN "exited" ELSE "propagated"
    /\ UNCHANGED <<vaspy, nonVaspyVars>>

NextVaspy == Enter \/ IncarUpdate \/ PoscarAssign \/ BodyRaises \/ Exit

SpecVaspy == InitVaspy /\ [][NextVaspy]_vars

RootIncar == path_join(vaspy.root_path, File_INCAR)

\* The INCAR path of the input directory when input_path is a relative or an
\* absolute path string
InputIncar ==
    IF vaspy.input_path = <<>> THEN RootIncar
    ELSE IF vaspy.input_path[1][1] = SLASH
         THEN vaspy.input_path[1] \o <<SLASH>> \o File_INCAR
    ELSE vaspy.root_path \o <<SLASH>> \o vaspy.input_path[1] \o <<SLASH>> \o File_INCAR

MaxOptOps == 1

\* `echo hi`
Line_echo ==
    <<"e", "c", "h", "o", " ", "h", "i">>
\* `srun prog.sh`
Line_srun_prog ==
    <<"s", "r", "u", "n", " ", "p", "r", "o", "g", ".", "s", "h">>
\* `  srun -v --mem=2`
Line_srun_opts ==
    <<" ", " ", "s", "r", "u", "n", " ", "-", "v", " ", "-", "-", "m", "e",
      "m", "=", "2">>
\* `srun --x "a b" p`
Line_srun_quoted ==
    <<"s", "r", "u", "n", " ", "-", "-", "x", " ", "\"", "a", " ", "b",
      "\"", " ", "p">>
\* `srun "a b`
Line_srun_open ==
    <<"s", "r", "u", "n", " ", "\"", "a", " ", "b">>
\* `srun --b=1 --b=2 x`
Line_srun_twice ==
    <<"s", "r", "u", "n", " ", "-", "-", "b", "=", "1", " ", "-", "-", "b",
      "=", "2", " ", "x">>

OptSample ==
    <<Line_echo, Line_srun_prog, Line_srun_opts, Line_ntasks_4, Line_srun_quoted,
      Line_srun_open, Line_srun_twice>>

Str_minus_1 == <<"-", "1">>
Opt_mem == <<"-", "-", "m", "e", "m">>

OptValues == {Str_8, Str_minus_1}
OptOrders == {<<Opt_mem, Opt_b>>, <<Opt_b, Opt_b>>}

InitOpt ==
    /\ \E S \in SUBSET (1..Len(OptSample)) : lines = Pick(OptSample, S)
    /\ hist = <<>>
    /\ ops = <<>>
    /\ sphase = "edit"
    /\ CodecOff
    /\ ScanOff
    /\ SubmitOff
    /\ VaspyOff

OptSet ==
    /\ CanCall(MaxOptOps)
    /\ \E which \in {"first", "all"}, value \in OptValues :
         LET r == set_option_on_command(lines, Str_srun, Str_ntasks, value, which)
         IN  /\ lines' = r.lines
             /\ Recorded([op |-> "set_option_on_command", name |-> Str_srun,
                          flag |-> Str_ntasks, value |-> value, which |-> which,
                          raised |-> r.raised])

OptSetAt ==
    /\ CanCall(MaxOptOps)
    /\ \E occurrence \in 0..2, value \in OptValues :
         LET r == set_option_on_command_at(lines, Str_srun, occurrence,
                                           Str_ntasks, value)
         IN  /\ lines' = r.lines
             /\ Recorded([op |-> "set_option_on_command_at", name |-> Str_srun,
                          occurrence |-> occurrence, flag |-> Str_ntasks,
                          value |-> value, raised |-> r.raised])

OptNormalize ==
    /\ CanCall(MaxOptOps)
    /\ \E preferred_order \in OptOrders, occurrence \in Occurrences :
         LET r == normalize_command_options(lines, Str_srun, preferred_order,
                                            occurrence)
         IN  /\ lines' = r.lines
             /\ Recorded([op |-> "normalize_command_options", name |-> Str_srun,
                          preferred_order |-> preferred_order,
                          occurrence |-> occurrence, raised |-> r.raised])

NextOpt == OptSet \/ OptSetAt \/ OptNormalize

SpecOpt == InitOpt /\ [][NextOpt]_vars

(***************************************************************************)
(* Claims about the option editors on the sample                           *)
(***************************************************************************)

\* The calls that set an option
SetOps == {"set_option_on_command", "set_option_on_command_at"}

\* The position before which a new option goes into the tokens T: that of
\* the first token after the command name that does not begin with `-`,
\* past the end when there is none
NewOptionPos(T) ==
    LET P == {j \in 2..Len(T) : ~startswith(T[j], <<"-">>)}
    IN  IF P = {} THEN Len(T) + 1 ELSE Min(P)

\* The tokens T with the token tok put before position pos
WithTokenAt(T, pos, tok) ==
    [k \in 1..(Len(T) + 1) |->
        IF k < pos THEN T[k] ELSE IF k = pos THEN tok ELSE T[k - 1]]

\* C21: when the flag is not on the command line, setting the option puts
\* one new flag=value token right before the first token after the command
\* name that does not begin with `-`, or at the end when every token after
\* the command name begins with `-`; the tokens that were there keep their
\* order.
C21_NewOptionInserted ==
    (NOps >= 1 /\ LastOp.op \in SetOps /\ ~LastOp.raised)
        => \A i \in Selected :
             LET T == TokensOf(Before[i])
             IN  FlagIdx(T, LastOp.flag) = {}
                   => lines[i] =
                        join(<<" ">>,
                             WithTokenAt(T, NewOptionPos(T),
                                         LastOp.flag \o <<"=">> \o LastOp.value))

\* set_option_on_command(which=all) was called on a script with a line that
\* has a positional token, a line of options only and a line with a quoted
\* token, none carrying the flag
C21_Witness ==
    /\ NOps >= 1
    /\ LastOp.op = "set_option_on_command"
    /\ ~LastOp.raised
    /\ \E i, j, k \in Selected :
         /\ Before[i] = Line_srun_prog
         /\ lines[i] = <<"s", "r", "u", "n", " ", "-", "-", "n", "t", "a", "s", "k",
                         "s", "=", "8", " ", "p", "r", "o", "g", ".", "s", "h">>
         /\ Before[j] = Line_srun_opts
         /\ lines[j] = <<"s", "r", "u", "n", " ", "-", "v", " ", "-", "-", "m", "e",
                         "m", "=", "2", " ", "-", "-", "n", "t", "a", "s", "k", "s",
                         "=", "8">>
         /\ Before[k] = Line_srun_quoted
         /\ FlagIdx(TokensOf(Before[k]), LastOp.flag) = {}

\* The token lists of the line carry the flag
CarriesFlag(line, flag) == FlagIdx(TokensOf(line), flag) # {}

\* C22: set_option_on_command_at(command, k, flag, v) edits only the k-th
\* (from 0) line whose trimmed text begins with `command ` and leaves every
\* other line as it was, and changes nothing when fewer than k+1 lines
\* match; set_option_on_command edits only the first matching line for
\* which=first and every matching line for which=all.
C22_OnlySelectedLinesEdited ==
    (NOps >= 1 /\ LastOp.op \in SetOps)
        => /\ Len(lines) = Len(Before)
           /\ \A i \in 1..Len(Before) :
                i \notin Selected => lines[i] = Before[i]
           /\ Selected = {} => (lines = Before /\ ~LastOp.raised)
           /\ ~LastOp.raised
                => \A i \in Selected : CarriesFlag(lines[i], LastOp.flag)
           /\ LastOp.op = "set_option_on_command_at"
                => /\ Cardinality(Selected) <= 1
                   /\ Cardinality(CommandIdx(Before, LastOp.name)) <= LastOp.occurrence
                        => Selected = {}
           /\ (LastOp.op = "set_option_on_command" /\ LastOp.which = "first")
                => Cardinality(Selected) <= 1

\* set_option_on_command_at was called for the second srun line of a script
\* with an echo line and three srun lines, and rewrote that line
C22_Witness ==
    /\ NOps >= 1
    /\ LastOp.op = "set_option_on_command_at"
    /\ LastOp.occurrence = 1
    /\ ~LastOp.raised
    /\ Before = <<Line_echo, Line_srun_prog, Line_ntasks_4, Line_srun_twice>>
    /\ lines[3] # Before[3]
    /\ CarriesFlag(lines[3], Str_ntasks)
    /\ lines[2] = Line_srun_prog

(***************************************************************************)
(* Claims about what a Vaspy with-block writes and when                    *)
(***************************************************************************)

RootPoscar == path_join(vaspy.root_path, File_POSCAR)

\* The with-block was entered and not yet left
InsideBlock == vpc \in {"inside", "raised"}

\* Up to now only POTCAR files were written
OnlyPotcarWritten ==
    \A w \in writes : \E d \in Dirs : w.path = path_join(d, File_POTCAR)

\* The file at path was written when the block was left
SavedAtExit(path) == [path |-> path, phase |-> "exit"] \in writes

\* The block was left without an exception, auto_save on
SavedExit == vpc = "exited" /\ vaspy.auto_save

\* C23 as stated: between entering a with-block and leaving it, updating the
\* INCAR entries or assigning POSCAR text writes no INCAR and no POSCAR
\* file; both files are written when the block is left, and the POSCAR
\* file's content equals the assigned text.
C23_FilesWrittenAtExit ==
    /\ InsideBlock => OnlyPotcarWritten
    /\ SavedExit
         => /\ SavedAtExit(RootIncar)
            /\ exists(files, RootIncar)
            /\ vaspy.assigned
                 => /\ SavedAtExit(RootPoscar)
                    /\ files[RootPoscar] = <<vaspy.poscar>>

\* C23, amended: between entering a with-block and leaving it, updating the
\* INCAR entries or assigning POSCAR text writes no INCAR and no POSCAR
\* file; INCAR is written when the block is left, and so is POSCAR with
\* the assigned text as its content when that text is not empty; an empty
\* POSCAR text writes no POSCAR file.
C23_NonEmptyPoscarWrittenAtExit ==
    /\ InsideBlock => OnlyPotcarWritten
    /\ SavedExit
         => /\ SavedAtExit(RootIncar)
            /\ exists(files, RootIncar)
            /\ (vaspy.assigned /\ vaspy.poscar # <<>>)
                 => /\ SavedAtExit(RootPoscar)
                    /\ files[RootPoscar] = <<vaspy.poscar>>
            /\ vaspy.poscar = <<>> => ~SavedAtExit(RootPoscar)

\* A block over an empty directory was left after an update of the INCAR
\* entries and an assignment of POSCAR text
C23_Witness ==
    /\ SavedExit
    /\ vaspy.input_path = <<>>
    /\ vaspy.assigned
    /\ vaspy.calls = 2
    /\ vaspy.incar # <<>>
    /\ vaspy.poscar = Text_short
    /\ files[RootPoscar] = <<Text_short>>
    /\ writes = {[path |-> p, phase |-> "exit"] :
                    p \in {RootIncar, RootPoscar,
                           path_join(vaspy.root_path, File_KPOINTS)}}

\* C24: when the body of a with-block raises, __exit__ does not call
\* save_all, writes no file and lets the exception propagate to the caller;
\* with auto_save false a normal exit writes nothing either.
C24_NoSaveOnException ==
    [][ /\ vpc = "raised"
          => /\ vpc' = "propagated"
             /\ files' = files
             /\ writes' = writes
        /\ (vpc = "inside" /\ ~vaspy.auto_save /\ vpc' = "exited")
          => /\ files' = files
             /\ writes' = writes ]_vars

\* The body raised after an update and an assignment, auto_save on, and the
\* exception left the block with nothing saved
C24_Witness ==
    /\ vpc = "propagated"
    /\ vaspy.auto_save
    /\ vaspy.calls = 2
    /\ vaspy.assigned
    /\ vaspy.incar # <<>>
    /\ vaspy.poscar # <<>>
    /\ writes = {}
    /\ ~exists(files, RootIncar)
    /\ ~exists(files, RootPoscar)

(***************************************************************************)
(* Claims about the shebang line and about the text of a script            *)
(***************************************************************************)

\* C25: if line 0 of a script is a shebang (starts with `#!`), it is still
\* line 0 after any sequence of editor operations.
C25_ShebangStaysFirst ==
    (Loaded # <<>> /\ startswith(Loaded[1], SHEBANG))
        => /\ lines # <<>>
           /\ lines[1] = Loaded[1]

\* C26: applying set_option_on_command(command, flag, v) twice in a row with
\* the same arguments gives the same script as applying it once, for every
\* command line and every value v, also values that begin with `-`.
C26_SetOptionIdempotent ==
    (NOps >= 1 /\ LastOp.op = "set_option_on_command" /\ ~LastOp.raised)
        => LET again == set_option_on_command(lines, LastOp.name, LastOp.flag,
                                              LastOp.value, LastOp.which)
           IN  /\ ~again.raised
               /\ again.lines = lines

\* C27: if set_option_on_command with which=all, or
\* normalize_command_options over all occurrences, fails with a tokenization
\* error on some matching line, the script is left exactly as it was before
\* the call: no earlier matching line stays rewritten.
C27_FailedCallChangesNothing ==
    (/\ NOps >= 1
     /\ LastOp.raised
     /\ \/ LastOp.op = "set_option_on_command" /\ LastOp.which = "all"
        \/ LastOp.op = "normalize_command_options" /\ LastOp.occurrence = <<>>)
        => lines = Before

\* The line is the tokens T in some order, joined by single blanks
IsReordering(line, T) ==
    \E p \in Permutations(1..Len(T)) :
        line = join(<<" ">>, [k \in 1..Len(T) |-> T[p[k]]])

\* C28: normalize_command_options only reorders tokens: each rewritten line
\* has the tokens of the original line, each as often as there, so that no
\* option token is dropped or duplicated, also when one --name=value option
\* name occurs more than once on the line or a name is repeated in
\* preferred_order.
C28_NormalizeOnlyReorders ==
    (NOps >= 1 /\ LastOp.op = "normalize_command_options" /\ ~LastOp.raised)
        => \A i \in NormalizeTargets :
              IsReordering(lines[i], TokensOf(Before[i]))

\* C29: rewriting a command line with set_option_on_command or
\* set_option_on_command_at keeps every token other than the targeted
\* option: tokenizing the rewritten line shell-style gives exactly the token
\* list the edit produced, also when an untouched token was quoted in the
\* original line and contains whitespace.
C29_RewrittenLineKeepsTokens ==
    (NOps >= 1 /\ LastOp.op \in SetOps /\ ~LastOp.raised)
        => \A i \in Selected :
             LET edited == set_option_tokens(TokensOf(Before[i]), LastOp.flag,
                                             LastOp.value)
                 again == shlex_split(lines[i])
             IN  /\ again.ok
                 /\ again.tokens = edited

(***************************************************************************)
(* A script rendered to text and made from that text again, for scripts of *)
(* a few short lines, empty lines among them                               *)
(***************************************************************************)

MaxTextLines == 3
MaxTextOps == 2

\* An empty line, `a`, ` b ` and `# c`
TextLineCatalog == {<<>>, <<"a">>, <<" ", "b", " ">>, <<"#", " ", "c">>}

InitText ==
    /\ lines \in SeqsUpTo(TextLineCatalog, MaxTextLines)
    /\ hist = <<>>
    /\ ops = <<>>
    /\ sphase = "edit"
    /\ CodecOff
    /\ ScanOff
    /\ SubmitOff
    /\ VaspyOff

\* s = SlurmScript.from_text(s.to_string())
FromText ==
    /\ CanCall(MaxTextOps)
    /\ lines' = from_text(to_string(lines))
    /\ Recorded([op |-> "from_text"])

\* s.content = s.content
SetContent ==
    /\ CanCall(MaxTextOps)
    /\ lines' = from_text(to_string(lines))
    /\ Recorded([op |-> "content"])

NextText == FromText \/ SetContent

SpecText == InitText /\ [][NextText]_vars

\* C30: for every script whose lines hold no line-break character,
\* from_text(to_string()) has exactly the lines of the script, also for the
\* script with zero lines and for scripts whose last line is empty.
C30_TextRoundTrip ==
    (NOps >= 1 /\ LastOp.op \in {"from_text", "content"}) => lines = Before

====
